---- MODULE Spec2Model ----
(***************************************************************************)
(* BuildXR: the mesh-group resolution engine (MeshGroupLoader), the step   *)
(* visibility/animation engine (VisibilityManager) and the clip sequencer  *)
(* (AssemblyManager), each as a state machine translated from its source.  *)
(*                                                                         *)
(* The three engines share no state.  Each has its own specification       *)
(* (SpecAsm, SpecGroups, SpecNames, SpecVis); a specification holds the    *)
(* variables of the other engines at their constructor values.             *)
(***************************************************************************)
EXTENDS Integers, Sequences, FiniteSets, TLC

VARIABLES
    \* ---- AssemblyManager (src/unnamed/part_003:178-330)
    assembly_config,   \* the loaded configuration: [loaded, hasParts, sequence]
    current_step,      \* this.current_step
    is_assembling,     \* this.is_assembling
    waiting,           \* executeCurrentStep chains suspended in 'await playWithCrossfade', oldest first
    asmLast,           \* the last AssemblyManager operation and whether it threw
    sinceReset,        \* TRUE from a resetAssembly() call until the next startAssembly() call
    \* ---- MeshGroupLoader (src/root/scripts/MeshGroupLoader.js, src/root/scripts/OutlineManager.js:381-560)
    rootModel,         \* the loaded scene, in traversal order: [name, isMesh]; a mesh's uuid is its index
    meshGroupConfig,   \* [baseNames, assembledGroups]
    built,             \* buildGroups has run
    groups,            \* this.groups / this.baseMeshes: a Map, as its entries in insertion order
    assembledGroups,   \* this.assembledGroups of MeshGroupLoader.js (resolveAssembled)
    assembledGroupsB,  \* this.assembledGroups of the loader in OutlineManager.js (resolveMeshesForName)
    resolveOk,         \* every recursive resolution returned within the depth the configuration allows
    lookup,            \* the last getAllMeshesForName call: [name, result, resultB]
    \* ---- VisibilityManager (src/root/scripts/Navigator.js:75-378) and the meshes it tracks
    meshVisible,       \* mesh.visible
    meshOpacity,       \* mesh.material.opacity, in thousandths
    meshTransparent,   \* mesh.material.transparent
    meshPosition,      \* mesh.position (local), along one axis
    meshParent,        \* mesh.parent: the mesh it hangs under, or 0 for the untransformed root
    loaderMeshes,          \* the meshes the loader's base groups hold now
    allBaseMeshNames,      \* this.allBaseMeshNames
    originalPositions,     \* this.originalPositions: a Map, as a function on the uuids it holds
    originalMaterialProps, \* this.originalMaterialProps, likewise
    calls,             \* the showOnlyStepMeshes / showAll calls made so far, oldest first
    raf,               \* the calls with a requestAnimationFrame callback pending, in request order
    restored,          \* resetPositions() was called right after the latest showAll() call
    visLast,           \* the last VisibilityManager event: [ev, ran], ran the calls whose callback it ran
    \* ---- OutlineManager (src/root/scripts/OutlineManager.js:9-378): the blinking outline
    isBlinking,        \* this.isBlinking
    blinkFreq,         \* this.blinkFreq, in Hz
    blinkTimer,        \* this.blinkTimer, in milliseconds
    blinkVisible,      \* this.blinkVisible
    selectedObjects,   \* this.selectedObjects
    outlineSelected,   \* this.outlinePass.selectedObjects
    blinkElapsed,      \* the delta time passed to update() since the last setBlinking(), in milliseconds
    blinkToggles,      \* the toggles of blinkVisible since the last setBlinking()
    blinkUpdates,      \* the update() calls since the last setBlinking()
    blinkDisabled,     \* "no", or how the outline was when setBlinking(false) ran, until another operation than update()
    blinkCleared,      \* [from, updates]: from is "no", or how the manager was when clear() ran, until another
                       \* operation than update(); updates counts the update() calls since that clear()
    \* ---- AssemblyAnimator (src/root/scripts/camera/CameraCapture.js:65-330)
    animationConfig,   \* this.animationConfig: the animation entries of step "s1"
    clones,            \* every clone createAnimationClones has made, oldest first; a clone's uuid is its index
    animationClones,   \* this.animationClones: a Map from mesh uuid to clone, as a function
    animationOffsets,  \* this.animationOffsets: a Map from clone uuid to [originalMesh, targetPosition]
    anims,             \* the _animateCloneToTarget calls made so far, oldest first
    plays,             \* the playAssemblyAnimation calls made so far, oldest first
    animRaf,           \* the _animateCloneToTarget calls with an animation callback pending, in request order
    animLast           \* the last AssemblyAnimator event: [op, framed]; framed: the callbacks requested
                       \* since the clock last advanced have run

asmVars == <<assembly_config, current_step, is_assembling, waiting, asmLast, sinceReset>>
grpVars == <<rootModel, meshGroupConfig, built, groups, assembledGroups, assembledGroupsB,
             resolveOk, lookup>>

meshVars == <<meshVisible, meshOpacity, meshTransparent, meshPosition>>
snapVars == <<loaderMeshes, allBaseMeshNames, originalPositions, originalMaterialProps>>
visVars == <<meshVars, meshParent, snapVars, calls, raf, restored, visLast>>

blinkVars == <<isBlinking, blinkFreq, blinkTimer, blinkVisible, selectedObjects, outlineSelected,
               blinkElapsed, blinkToggles, blinkUpdates, blinkDisabled, blinkCleared>>

animVars == <<animationConfig, clones, animationClones, animationOffsets, anims, plays,
              animRaf, animLast>>

vars == <<asmVars, grpVars, visVars, blinkVars, animVars>>

\* ------------------------------------------------------------------------
\* Generic helpers
\* ------------------------------------------------------------------------

\* All sequences over S of length at most n.
SeqsUpTo(S, n) == UNION {[1..k -> S] : k \in 0..n}

Range(s) == {s[i] : i \in DOMAIN s}

\* ------------------------------------------------------------------------
\* AssemblyManager
\* ------------------------------------------------------------------------

\* Longest configured sequence, and the most chains that may be suspended at once.
MaxSeq == 3
MaxChains == 2

\* The kinds of sequence step: no clip; a clip that plays once and finishes
\* later ("a", "b"); a clip the mixer does not know (playWithCrossfade
\* rejects); a looping clip (playWithCrossfade resolves at once).
FiniteClips == {"a", "b"}
StepKinds == {"none", "missing", "loop"} \cup FiniteClips

AsmConfigs ==
    {[loaded |-> TRUE, hasParts |-> p, sequence |-> s] :
        p \in BOOLEAN, s \in SeqsUpTo(StepKinds, MaxSeq)}
    \cup {[loaded |-> FALSE, hasParts |-> FALSE, sequence |-> <<>>]}

\* executeCurrentStep from step index cs (0-based, as in the source), run up
\* to its first suspension.  A step without a clip, with a missing clip (the
\* rejection is caught at once) or with a looping clip (resolved at once)
\* lets the chain go on in the same turn of the event loop: no user event can
\* run between a settled promise and its continuation.  A finite clip
\* suspends the chain until the mixer's 'finished' event.
RECURSIVE executeCurrentStep(_, _, _)
executeCurrentStep(cs, ia, w) ==
    LET seq == assembly_config.sequence IN
    IF cs + 1 \notin DOMAIN seq
    THEN [cs |-> cs, ia |-> FALSE, w |-> w]
    ELSE IF seq[cs + 1] \in FiniteClips
    THEN [cs |-> cs, ia |-> ia, w |-> Append(w, seq[cs + 1])]
    ELSE IF cs + 1 < Len(seq)
    THEN executeCurrentStep(cs + 1, ia, w)
    ELSE [cs |-> cs + 1, ia |-> FALSE, w |-> w]

\* The continuation of executeCurrentStep after its awaited clip finished:
\* "this.current_step++" on the field as it is now, then the next step or the
\* end of the sequence.
AdvanceStep(cs, ia, w) ==
    IF cs + 1 < Len(assembly_config.sequence)
    THEN executeCurrentStep(cs + 1, ia, w)
    ELSE [cs |-> cs + 1, ia |-> FALSE, w |-> w]

\* The continuations of n resumed chains, run one after the other.
RECURSIVE ResumeChains(_, _)
ResumeChains(n, st) ==
    IF n = 0 THEN st
    ELSE ResumeChains(n - 1, AdvanceStep(st.cs, st.ia, st.w))

\* startAssembly(step): refused while a sequence is in progress.  Without a
\* loaded configuration executeCurrentStep throws on assembly_config.sequence;
\* startAssembly catches it and clears is_assembling.
startAssembly(step) ==
    /\ Len(waiting) < MaxChains
    /\ IF is_assembling
       THEN UNCHANGED <<current_step, is_assembling, waiting, sinceReset>>
       ELSE /\ sinceReset' = FALSE
            /\ IF ~assembly_config.loaded
               THEN /\ current_step' = step
                    /\ is_assembling' = FALSE
                    /\ UNCHANGED waiting
               ELSE LET st == executeCurrentStep(step, TRUE, waiting) IN
                    /\ current_step' = st.cs
                    /\ is_assembling' = st.ia
                    /\ waiting' = st.w
    /\ asmLast' = [op |-> "start", threw |-> FALSE]
    /\ UNCHANGED assembly_config

\* The mixer's 'finished' event for clip c: every chain awaiting c resumes, in
\* the order the chains registered their listeners.
clipFinished(c) ==
    /\ \E i \in DOMAIN waiting : waiting[i] = c
    /\ LET resumed == SelectSeq(waiting, LAMBDA x : x = c)
           rest == SelectSeq(waiting, LAMBDA x : x # c)
           st == ResumeChains(Len(resumed),
                              [cs |-> current_step, ia |-> is_assembling, w |-> rest])
       IN /\ current_step' = st.cs
          /\ is_assembling' = st.ia
          /\ waiting' = st.w
    /\ asmLast' = [op |-> "finished", threw |-> FALSE]
    /\ UNCHANGED <<assembly_config, sinceReset>>

\* resetAssembly(): clears the two fields, then walks assembly_config.parts.
\* Object.entries throws when there is no configuration or no parts entry;
\* this.parts is never filled, so the loop body itself does nothing.
resetAssembly ==
    /\ is_assembling' = FALSE
    /\ current_step' = 0
    /\ sinceReset' = TRUE
    /\ asmLast' = [op |-> "reset",
                   threw |-> ~(assembly_config.loaded /\ assembly_config.hasParts)]
    /\ UNCHANGED <<assembly_config, waiting>>

\* ------------------------------------------------------------------------
\* MeshGroupLoader: names and the regular expression of _discoverMeshVariants
\* ------------------------------------------------------------------------

\* A name is the sequence of its characters.
Digits == {"0", "1", "2", "3", "4", "5", "6", "7", "8", "9"}

\* The characters _escapeRegex escapes: /[.*+?^${}()|[\]\\]/g.
RegexSpecial == {".", "*", "+", "?", "^", "$", "{", "}", "(", ")", "|", "[", "]", "\\"}

\* The escaping left out: the base name goes into the pattern as it is.
escapeNothing(str) == str

\* _escapeRegex(str): every special character gets a backslash before it.
RECURSIVE escapeRegex(_)
escapeRegex(str) ==
    IF str = <<>> THEN <<>>
    ELSE (IF Head(str) \in RegexSpecial THEN <<"\\", Head(str)>> ELSE <<Head(str)>>)
         \o escapeRegex(Tail(str))

\* new RegExp(source), for the syntax the loader's patterns can hold: a
\* character, an escaped character (\d is the digit class), '.', each with an
\* optional quantifier + * ?.  A quantifier with nothing before it is the
\* SyntaxError "nothing to repeat": the token of class "error".
Quantifiers == {"+", "*", "?"}

RECURSIVE RegExpTokens(_)
RegExpTokens(src) ==
    IF src = <<>> THEN <<>>
    ELSE
      LET c == Head(src)
          escaped == c = "\\" /\ Len(src) >= 2
          atom == IF escaped
                    THEN (IF src[2] = "d" THEN [cls |-> "digit", ch |-> "d"]
                                          ELSE [cls |-> "lit", ch |-> src[2]])
                  ELSE IF c = "." THEN [cls |-> "any", ch |-> "."]
                  ELSE IF c \in Quantifiers \/ c = "\\" THEN [cls |-> "error", ch |-> c]
                  ELSE [cls |-> "lit", ch |-> c]
          rest == IF escaped THEN SubSeq(src, 3, Len(src)) ELSE Tail(src)
          quantified == rest # <<>> /\ Head(rest) \in Quantifiers /\ atom.cls # "error"
          tok == [cls |-> atom.cls, ch |-> atom.ch,
                  q |-> IF quantified THEN Head(rest) ELSE "1"]
      IN <<tok>> \o RegExpTokens(IF quantified THEN Tail(rest) ELSE rest)

\* One character against one atom.
AtomMatches(tok, c) ==
    CASE tok.cls = "lit" -> c = tok.ch
      [] tok.cls = "digit" -> c \in Digits
      [] tok.cls = "any" -> TRUE
      [] OTHER -> FALSE

\* The positions of s the matcher can be at after one more character of the atom.
AtomStep(S, tok, s) ==
    {p + 1 : p \in {q \in S : q < Len(s) /\ AtomMatches(tok, s[q + 1])}}

RECURSIVE AtomStar(_, _, _)
AtomStar(S, tok, s) ==
    LET T == S \cup AtomStep(S, tok, s) IN
    IF T = S THEN S ELSE AtomStar(T, tok, s)

\* The positions after a quantified atom, from any position of S.
TokenEnds(S, tok, s) ==
    CASE tok.q = "1" -> AtomStep(S, tok, s)
      [] tok.q = "?" -> S \cup AtomStep(S, tok, s)
      [] tok.q = "*" -> AtomStar(S, tok, s)
      [] tok.q = "+" -> AtomStar(AtomStep(S, tok, s), tok, s)

RECURSIVE TokensEnds(_, _, _)
TokensEnds(S, toks, s) ==
    IF toks = <<>> THEN S
    ELSE TokensEnds(TokenEnds(S, Head(toks), s), Tail(toks), s)

\* The source of the optional group of the pattern: (_\d+)?
VariantSuffix == <<"_", "\\", "d", "+">>

\* The pattern `^${escaped}(_\\d+)?$` is a syntax error.
RegExpThrows(escaped) ==
    \E i \in DOMAIN RegExpTokens(escaped) : RegExpTokens(escaped)[i].cls = "error"

\* regex.test(name) for regex = new RegExp(`^${escaped}(_\\d+)?$`).
RegExpTest(escaped, name) ==
    LET body == TokensEnds({0}, RegExpTokens(escaped), name)
        withSuffix == TokensEnds(body, RegExpTokens(VariantSuffix), name)
    IN /\ ~RegExpThrows(escaped)
       /\ Len(name) \in (body \cup withSuffix)

\* parseInt of a string of decimal digits.
DigitValue(c) ==
    CASE c = "0" -> 0 [] c = "1" -> 1 [] c = "2" -> 2 [] c = "3" -> 3 [] c = "4" -> 4
      [] c = "5" -> 5 [] c = "6" -> 6 [] c = "7" -> 7 [] c = "8" -> 8 [] c = "9" -> 9

RECURSIVE parseInt(_)
parseInt(ds) ==
    IF ds = <<>> THEN 0
    ELSE 10 * parseInt(SubSeq(ds, 1, Len(ds) - 1)) + DigitValue(ds[Len(ds)])

\* The digits name ends with (the longest run).
RECURSIVE TrailingDigits(_)
TrailingDigits(name) ==
    IF name = <<>> \/ name[Len(name)] \notin Digits THEN <<>>
    ELSE Append(TrailingDigits(SubSeq(name, 1, Len(name) - 1)), name[Len(name)])

\* The sort key of the comparator: name.match(/_(\d+)$/) ? parseInt(match[1]) : 0.
SuffixNum(name) ==
    LET ds == TrailingDigits(name)
        before == Len(name) - Len(ds)
    IN IF ds # <<>> /\ before >= 1 /\ name[before] = "_" THEN parseInt(ds) ELSE 0

\* found.sort((a, b) => aNum - bNum): Array.prototype.sort is stable, so
\* meshes with equal keys keep the order the traversal found them in.
RECURSIVE InsertByNum(_, _, _)
InsertByNum(sorted, m, root) ==
    IF sorted = <<>> THEN <<m>>
    ELSE IF SuffixNum(root[sorted[Len(sorted)]].name) <= SuffixNum(root[m].name)
    THEN Append(sorted, m)
    ELSE Append(InsertByNum(SubSeq(sorted, 1, Len(sorted) - 1), m, root), sorted[Len(sorted)])

RECURSIVE SortByNum(_, _)
SortByNum(found, root) ==
    IF found = <<>> THEN <<>>
    ELSE InsertByNum(SortByNum(SubSeq(found, 1, Len(found) - 1), root), found[Len(found)], root)

\* _discoverMeshVariants(root, baseName): the meshes root.traverse meets whose
\* name passes the pattern, sorted by numeric suffix.
discoverMeshVariants(root, baseName) ==
    LET escaped == escapeRegex(baseName)
        found == SelectSeq([i \in DOMAIN root |-> i],
                           LAMBDA i : root[i].isMesh /\ RegExpTest(escaped, root[i].name))
    IN SortByNum(found, root)

\* ------------------------------------------------------------------------
\* MeshGroupLoader: base groups and assembled groups
\* ------------------------------------------------------------------------

\* A JavaScript Map, as the sequence of its entries [key, val] in insertion
\* order; set() on a key it holds replaces the value in place.
MapHas(m, k) == \E i \in DOMAIN m : m[i].key = k

MapGet(m, k) == m[CHOOSE i \in DOMAIN m : m[i].key = k].val

MapSet(m, k, v) ==
    IF MapHas(m, k)
    THEN [i \in DOMAIN m |-> IF m[i].key = k THEN [key |-> k, val |-> v] ELSE m[i]]
    ELSE Append(m, [key |-> k, val |-> v])

MapKeys(m) == [i \in DOMAIN m |-> m[i].key]

\* mesh.uuid: unique per object of the scene.
uuid(m) == m

\* The deduplication left out: every collected mesh is kept.
DedupeNothing(collected) == collected

\* "Deduplicate meshes by UUID": the first occurrence of each uuid is kept.
RECURSIVE DedupeByUuid(_)
DedupeByUuid(collected) ==
    IF collected = <<>> THEN <<>>
    ELSE LET front == DedupeByUuid(SubSeq(collected, 1, Len(collected) - 1))
             m == collected[Len(collected)]
         IN IF \E i \in DOMAIN front : uuid(front[i]) = uuid(m) THEN front ELSE Append(front, m)

\* Step 1 of buildGroups / _buildBaseNames: one entry per configured base name
\* that discovers at least one mesh.
RECURSIVE buildBaseNames(_, _)
buildBaseNames(root, baseNames) ==
    IF baseNames = <<>> THEN <<>>
    ELSE LET before == buildBaseNames(root, SubSeq(baseNames, 1, Len(baseNames) - 1))
             baseName == baseNames[Len(baseNames)]
             discovered == discoverMeshVariants(root, baseName)
         IN IF Len(discovered) = 0 THEN before ELSE MapSet(before, baseName, discovered)

\* configByName: the assembled configurations by name (a later one of the same
\* name replaces an earlier one).
RECURSIVE ConfigByName(_)
ConfigByName(cfgs) ==
    IF cfgs = <<>> THEN <<>>
    ELSE MapSet(ConfigByName(SubSeq(cfgs, 1, Len(cfgs) - 1)),
                cfgs[Len(cfgs)].name, cfgs[Len(cfgs)])

\* The nesting depth a resolution can need: one level per assembled
\* configuration and one for the base group at the end of the chain.  A
\* resolution that nests deeper than this does not return (ok = FALSE).
ResolveDepth(cfgs) == Len(cfgs) + 2

\* The cycle check left out: no name is ever seen as being resolved.
InResolvingNever(name, resolving) == FALSE

\* The cycle checks: resolving.has(name) / resolvingCache.has(groupName).
InResolving(name, resolving) == name \in resolving

\* ---- OutlineManager.js:446-480: resolveMeshesForName, without a result cache.
RECURSIVE resolveMeshesForName(_, _, _, _, _)
RECURSIVE collectElements(_, _, _, _, _)

resolveMeshesForName(name, resolving, depth, byName, base) ==
    IF depth = 0 THEN [meshes |-> <<>>, ok |-> FALSE]
    ELSE IF InResolving(name, resolving) THEN [meshes |-> <<>>, ok |-> TRUE]
    ELSE IF MapHas(byName, name)
    THEN collectElements(MapGet(byName, name).groups, resolving \cup {name},
                         depth - 1, byName, base)
    ELSE IF MapHas(base, name) THEN [meshes |-> MapGet(base, name), ok |-> TRUE]
    ELSE [meshes |-> <<>>, ok |-> TRUE]

collectElements(elements, resolving, depth, byName, base) ==
    IF elements = <<>> THEN [meshes |-> <<>>, ok |-> TRUE]
    ELSE LET h == resolveMeshesForName(Head(elements), resolving, depth, byName, base)
             t == collectElements(Tail(elements), resolving, depth, byName, base)
         IN [meshes |-> h.meshes \o t.meshes, ok |-> h.ok /\ t.ok]

\* The loop over meshGroupConfig.assembledGroups: resolve, deduplicate, store.
RECURSIVE buildAssembledGroupsB(_, _, _)
buildAssembledGroupsB(cfgs, all, base) ==
    IF cfgs = <<>> THEN [map |-> <<>>, ok |-> TRUE]
    ELSE LET before == buildAssembledGroupsB(SubSeq(cfgs, 1, Len(cfgs) - 1), all, base)
             name == cfgs[Len(cfgs)].name
             r == resolveMeshesForName(name, {}, ResolveDepth(all), ConfigByName(all), base)
         IN [map |-> MapSet(before.map, name, DedupeByUuid(r.meshes)),
             ok |-> before.ok /\ r.ok]

\* ---- MeshGroupLoader.js:112-170: resolveAssembled, with finalMeshesCache
\* shared by all the resolutions of one _buildAssembledGroups call.
RECURSIVE resolveAssembled(_, _, _, _, _, _)
RECURSIVE collectNested(_, _, _, _, _, _)

\* The meshes of the configuration's own baseNames (unknown or empty ones are skipped).
RECURSIVE collectBaseNames(_, _)
collectBaseNames(baseNames, base) ==
    IF baseNames = <<>> THEN <<>>
    ELSE (IF MapHas(base, Head(baseNames)) THEN MapGet(base, Head(baseNames)) ELSE <<>>)
         \o collectBaseNames(Tail(baseNames), base)

resolveAssembled(groupName, resolving, final, depth, byName, base) ==
    IF depth = 0 THEN [meshes |-> <<>>, final |-> final, ok |-> FALSE]
    ELSE IF MapHas(final, groupName)
    THEN [meshes |-> MapGet(final, groupName), final |-> final, ok |-> TRUE]
    ELSE IF InResolving(groupName, resolving)
    THEN [meshes |-> <<>>, final |-> final, ok |-> TRUE]
    ELSE IF ~MapHas(byName, groupName)
    THEN (IF MapHas(base, groupName)
          THEN [meshes |-> MapGet(base, groupName),
                final |-> MapSet(final, groupName, MapGet(base, groupName)), ok |-> TRUE]
          ELSE [meshes |-> <<>>, final |-> final, ok |-> TRUE])
    ELSE LET config == MapGet(byName, groupName)
             nested == collectNested(config.groups, resolving \cup {groupName}, final,
                                     depth - 1, byName, base)
             unique == DedupeByUuid(collectBaseNames(config.baseNames, base) \o nested.meshes)
         IN [meshes |-> unique, final |-> MapSet(nested.final, groupName, unique),
             ok |-> nested.ok]

collectNested(refs, resolving, final, depth, byName, base) ==
    IF refs = <<>> THEN [meshes |-> <<>>, final |-> final, ok |-> TRUE]
    ELSE LET h == resolveAssembled(Head(refs), resolving, final, depth, byName, base)
             t == collectNested(Tail(refs), resolving, h.final, depth, byName, base)
         IN [meshes |-> h.meshes \o t.meshes, final |-> t.final, ok |-> h.ok /\ t.ok]

\* The loop over meshGroupConfig.assembledGroups, oldest first.
RECURSIVE buildAssembledGroups(_, _, _)
buildAssembledGroups(cfgs, all, base) ==
    IF cfgs = <<>> THEN [map |-> <<>>, final |-> <<>>, ok |-> TRUE]
    ELSE LET before == buildAssembledGroups(SubSeq(cfgs, 1, Len(cfgs) - 1), all, base)
             name == cfgs[Len(cfgs)].name
             r == resolveAssembled(name, {}, before.final, ResolveDepth(all),
                                   ConfigByName(all), base)
         IN [map |-> MapSet(before.map, name, r.meshes), final |-> r.final,
             ok |-> before.ok /\ r.ok]

\* getAllMeshesForName(name): the same text in both loaders, each over its own
\* maps.  null is the result [isNull |-> TRUE].
Null == [isNull |-> TRUE, meshes |-> <<>>]

getAllMeshesForName(name, base, assembled) ==
    IF MapHas(base, name) THEN [isNull |-> FALSE, meshes |-> MapGet(base, name)]
    ELSE IF MapHas(assembled, name) THEN [isNull |-> FALSE, meshes |-> MapGet(assembled, name)]
    ELSE Null

\* getMeshes(baseName): the meshes of the entry, or null.
getMeshes(baseName, base) ==
    IF MapHas(base, baseName) THEN [isNull |-> FALSE, meshes |-> MapGet(base, baseName)]
    ELSE Null

\* getBaseNames(): the keys of the base groups.
getBaseNames(base) == MapKeys(base)

\* buildGroups(rootModel): the base groups, then the assembled groups.
buildGroups ==
    /\ ~built
    /\ built' = TRUE
    /\ LET base == buildBaseNames(rootModel, meshGroupConfig.baseNames)
           a == buildAssembledGroups(meshGroupConfig.assembledGroups,
                                     meshGroupConfig.assembledGroups, base)
           b == buildAssembledGroupsB(meshGroupConfig.assembledGroups,
                                      meshGroupConfig.assembledGroups, base)
       IN /\ groups' = base
          /\ assembledGroups' = a.map
          /\ assembledGroupsB' = b.map
          /\ resolveOk' = (a.ok /\ b.ok)
    /\ UNCHANGED <<rootModel, meshGroupConfig, lookup>>

\* A caller asks for the meshes of a name.
lookupName(name) ==
    /\ built
    /\ lookup' = [name |-> name,
                  result |-> getAllMeshesForName(name, groups, assembledGroups),
                  resultB |-> getAllMeshesForName(name, groups, assembledGroupsB)]
    /\ UNCHANGED <<rootModel, meshGroupConfig, built, groups, assembledGroups,
                   assembledGroupsB, resolveOk>>

GrpCtor ==
    /\ built = FALSE
    /\ groups = <<>>
    /\ assembledGroups = <<>>
    /\ assembledGroupsB = <<>>
    /\ resolveOk = TRUE
    /\ lookup = [name |-> <<>>, result |-> Null, resultB |-> Null]

GrpIdle ==
    /\ rootModel = <<>>
    /\ meshGroupConfig = [baseNames |-> <<>>, assembledGroups |-> <<>>]
    /\ GrpCtor

\* ------------------------------------------------------------------------
\* VisibilityManager
\* ------------------------------------------------------------------------

\* The meshes of the scene, by uuid, as authored: mesh 3 is half transparent.
\* No two of them share a material (initialize() clones the material of every
\* mesh it tracks).
Meshes == {1, 2, 3}
InitialPosition == <<8, 16, 40>>
InitialOpacity == <<1000, 1000, 500>>
InitialTransparent == <<FALSE, FALSE, TRUE>>

\* The base group of each mesh: mesh 1 is "a", meshes 2 and 3 are "b" and "b_1".
GroupOf == <<"a", "b", "b">>

\* What the loader's base groups hold when the VisibilityManager is
\* constructed: every mesh, or a model still without the variant b_1.
LoaderScenes == {{1, 2, 3}, {1, 2}}

\* The involved base names of the configured steps.
Steps == {{"a"}, {"b"}, {}}

\* Opacity 1, in thousandths.
OpacityOne == 1000

\* The delays and durations of the source, in milliseconds.
StartDelayMs == 2000
FadeMs == 500
SettleMs == 500
CenterMs == 1500
ShowAllMs == 300

\* The clock advances in steps of TickMs; at most MaxCalls asynchronous calls are made.
TickMs == 250
MaxCalls == 2

NoData == [m \in Meshes |-> 0]

Min(a, b) == IF a < b THEN a ELSE b

\* getMeshes(name) over a set of base names: the meshes the loader holds for them.
MeshesOfNames(names) == {m \in loaderMeshes : GroupOf[m] \in names}

\* The meshes the manager reaches through allBaseMeshNames.
Tracked == MeshesOfNames(allBaseMeshNames)

\* Duration without the wait between the fade and the centring.
DurationNoSettle(pc) ==
    CASE pc = "delay" -> StartDelayMs
      [] pc = "fade" -> FadeMs
      [] pc = "center" -> CenterMs
      [] pc = "fadeIn" -> ShowAllMs
      [] OTHER -> 0

\* What a call waits on in each position, and for how long.
Duration(pc) ==
    CASE pc = "delay" -> StartDelayMs
      [] pc = "fade" -> FadeMs
      [] pc = "settle" -> SettleMs
      [] pc = "center" -> CenterMs
      [] pc = "fadeIn" -> ShowAllMs
      [] OTHER -> 0

InFlight(c) == c.pc # "done"

Quiescent == \A i \in DOMAIN calls : ~InFlight(calls[i])

\* A newer call or reset supersedes every call still in flight.
Supersede(cs) == [i \in DOMAIN cs |-> IF InFlight(cs[i]) THEN [cs[i] EXCEPT !.stale = TRUE] ELSE cs[i]]

\* A fade that takes every tracked mesh.
MeshesToFadeAll(involved) == Tracked

\* _fadeOutNonInvolved: the tracked meshes outside the involved set.
MeshesToFade(involved) == Tracked \ involved

\* _fadeOutNonInvolved's animate: "const opacity = 1 - progress" with
\* progress = min(elapsed / duration, 1).
FadeOpacity(elapsed) == OpacityOne - (OpacityOne * Min(elapsed, FadeMs)) \div FadeMs

\* Targets that ignore what was recorded.
DefaultProps(m) == [transparent |-> FALSE, opacity |-> OpacityOne]

\* showAll: "originalProps[idx] || { transparent: false, opacity: 1 }".
TargetProps(m) ==
    IF m \in DOMAIN originalMaterialProps THEN originalMaterialProps[m]
    ELSE [transparent |-> FALSE, opacity |-> OpacityOne]

\* showAll's animate: startOpacity + (targetOpacity - startOpacity) * progress.
FadeInOpacity(start, target, elapsed) ==
    start + ((target - start) * Min(elapsed, ShowAllMs)) \div ShowAllMs

\* A reset that moves nothing.
KeepPosition(m) == meshPosition[m]

\* resetPositions: "if (originalPos) mesh.position.copy(originalPos)".
ResetPosition(m) ==
    IF m \in Tracked /\ m \in DOMAIN originalPositions THEN originalPositions[m]
    ELSE meshPosition[m]

\* An easing that stops half way.
EasedHalfWay(start, target, elapsed) ==
    start + ((target - start) * Min(elapsed, CenterMs)) \div (2 * CenterMs)

\* _centerMeshesAtOrigin's animate: lerpVectors(startPos, targetPos, eased)
\* with eased = p < 0.5 ? 2p^2 : 1 - (2 - 2p)^2 / 2 and p = elapsed / duration.
EasedPosition(start, target, elapsed) ==
    LET e == Min(elapsed, CenterMs)
        num == IF 2 * e < CenterMs
                 THEN 2 * e * e
                 ELSE CenterMs * CenterMs - 2 * (CenterMs - e) * (CenterMs - e)
    IN start + ((target - start) * num) \div (CenterMs * CenterMs)

SetMin(S) == CHOOSE x \in S : \A y \in S : x <= y
SetMax(S) == CHOOSE x \in S : \A y \in S : x >= y

\* The scene graphs: every mesh under the root; mesh 3 under mesh 2 (both of
\* base name "b"); mesh 3 under mesh 1 (of another base name).
FlatScene == <<0, 0, 0>>
SceneGraphs == {FlatScene, <<0, 0, 2>>, <<0, 0, 1>>}

\* getWorldPosition: the local position carried through the parents (the
\* meshes are neither rotated nor scaled).
RECURSIVE WorldPosition(_, _)
WorldPosition(m, pos) ==
    IF meshParent[m] = 0 THEN pos[m] ELSE pos[m] + WorldPosition(meshParent[m], pos)

\* The meshes Box3.setFromObject visits for ms: each mesh and what hangs under it.
RECURSIVE HangsUnder(_, _)
HangsUnder(m, ms) ==
    \/ m \in ms
    \/ meshParent[m] # 0 /\ HangsUnder(meshParent[m], ms)

\* The centre of the bounding box of the meshes (Box3 setFromObject, union, getCenter).
BoxCenter(ms, pos) ==
    LET points == {WorldPosition(m, pos) : m \in {n \in Meshes : HangsUnder(n, ms)}}
    IN (SetMin(points) + SetMax(points)) \div 2

\* The target of each mesh: its world position plus offset = -centre, taken
\* back to local space through the parent's world matrix as it is now.
CenterTargets(ms, pos) ==
    [m \in Meshes |->
        IF m \in ms
        THEN (WorldPosition(m, pos) + (0 - BoxCenter(ms, pos)))
             - (IF meshParent[m] = 0 THEN 0 ELSE WorldPosition(meshParent[m], pos))
        ELSE 0]

\* A call as issued.  faded, settled, resolvedPos and snap record what
\* happened: the fade ran its last frame, the wait that preceded the centring,
\* the positions when the promise resolved, and the loader's meshes and the
\* recorded originals when the call was made.
NewCall(kind, involved) ==
    [kind |-> kind, involved |-> involved,
     pc |-> IF kind = "show" THEN "delay" ELSE "fadeIn", t |-> 0,
     toFade |-> {}, startPos |-> NoData, targetPos |-> NoData,
     shown |-> {}, startOpacity |-> NoData, targetOpacity |-> NoData,
     targetTransparent |-> [m \in Meshes |-> FALSE],
     overlap |-> ~Quiescent,
     rapid |-> /\ kind = "show"
               /\ calls # <<>>
               /\ calls[Len(calls)].kind = "show"
               /\ calls[Len(calls)].pc = "delay"
               /\ calls[Len(calls)].t = 0,
     stale |-> FALSE, faded |-> FALSE, settled |-> 0, resolvedPos |-> NoData,
     snap |-> snapVars]

\* ---- the operations

\* initialize(): the base names are read from the loader, and for every mesh
\* of theirs the position and the material properties are recorded
\* (Map.set, whether or not the uuid is already recorded).
initialize ==
    /\ Quiescent
    /\ allBaseMeshNames' = {GroupOf[m] : m \in loaderMeshes}
    /\ originalPositions' =
         [m \in DOMAIN originalPositions \cup loaderMeshes |->
            IF m \in loaderMeshes THEN meshPosition[m] ELSE originalPositions[m]]
    /\ originalMaterialProps' =
         [m \in DOMAIN originalMaterialProps \cup loaderMeshes |->
            IF m \in loaderMeshes
            THEN [transparent |-> meshTransparent[m], opacity |-> meshOpacity[m]]
            ELSE originalMaterialProps[m]]
    /\ visLast' = [ev |-> "initialize", ran |-> {}]
    /\ UNCHANGED <<meshVars, loaderMeshes, calls, raf, restored>>
    /\ UNCHANGED meshParent

\* The loader builds its groups again on a model that now has every mesh.
groupsRebuilt ==
    /\ Quiescent
    /\ loaderMeshes # Meshes
    /\ loaderMeshes' = Meshes
    /\ visLast' = [ev |-> "rebuild", ran |-> {}]
    /\ UNCHANGED <<meshVars, allBaseMeshNames, originalPositions, originalMaterialProps,
                   calls, raf, restored>>
    /\ UNCHANGED meshParent

\* showOnlyStepMeshes(step), up to its first await: the involved meshes are
\* resolved through the loader and the 2000 ms timer is set.
showOnlyStepMeshes(step) ==
    /\ calls' = Append(Supersede(calls), NewCall("show", MeshesOfNames(step)))
    /\ restored' = FALSE
    /\ visLast' = [ev |-> "show", ran |-> {}]
    /\ UNCHANGED <<meshVars, snapVars, raf>>
    /\ UNCHANGED meshParent

\* showAll(), up to the first animate(): every tracked mesh is made visible
\* and transparent, the start and target values are recorded, and animate()
\* at elapsed 0 writes the start opacity back.
showAll ==
    /\ meshVisible' = [m \in Meshes |-> IF m \in Tracked THEN TRUE ELSE meshVisible[m]]
    /\ meshTransparent' = [m \in Meshes |-> IF m \in Tracked THEN TRUE ELSE meshTransparent[m]]
    /\ calls' = Append(Supersede(calls),
         [NewCall("showAll", {}) EXCEPT
            !.shown = Tracked,
            !.startOpacity = meshOpacity,
            !.targetOpacity = [m \in Meshes |-> TargetProps(m).opacity],
            !.targetTransparent = [m \in Meshes |-> TargetProps(m).transparent]])
    /\ raf' = Append(raf, Len(calls) + 1)
    /\ restored' = FALSE
    /\ visLast' = [ev |-> "showAll", ran |-> {}]
    /\ UNCHANGED <<meshOpacity, meshPosition, snapVars>>
    /\ UNCHANGED meshParent

\* resetPositions(): every tracked mesh with a recorded position back to it.
resetPositions ==
    /\ meshPosition' = [m \in Meshes |-> ResetPosition(m)]
    /\ calls' = Supersede(calls)
    /\ restored' = (restored \/ visLast.ev = "showAll")
    /\ visLast' = [ev |-> "reset", ran |-> {}]
    /\ UNCHANGED <<meshVisible, meshOpacity, meshTransparent, snapVars, raf>>
    /\ UNCHANGED meshParent

\* A setTimeout of call i fires and showOnlyStepMeshes goes on.  After the
\* 2000 ms: _fadeOutNonInvolved collects the tracked meshes outside the
\* involved set, makes them transparent and runs animate() once (elapsed 0:
\* opacity 1).  After the 500 ms: _centerMeshesAtOrigin, when any mesh is
\* involved, records start and target and runs animate() once (elapsed 0:
\* the start positions).
timerFired(i) ==
    /\ i \in DOMAIN calls
    /\ calls[i].pc \in {"delay", "settle"}
    /\ calls[i].t >= Duration(calls[i].pc)
    /\ visLast' = [ev |-> "timer", ran |-> {i}]
    /\ IF calls[i].pc = "delay"
       THEN LET meshesToFade == MeshesToFade(calls[i].involved) IN
            /\ meshTransparent' = [m \in Meshes |-> IF m \in meshesToFade THEN TRUE
                                                    ELSE meshTransparent[m]]
            /\ meshOpacity' = [m \in Meshes |-> IF m \in meshesToFade THEN FadeOpacity(0)
                                                ELSE meshOpacity[m]]
            /\ calls' = [calls EXCEPT ![i].pc = "fade", ![i].t = 0, ![i].toFade = meshesToFade]
            /\ raf' = Append(raf, i)
            /\ UNCHANGED <<meshVisible, meshPosition>>
       ELSE IF calls[i].involved # {}
       THEN /\ calls' = [calls EXCEPT ![i].pc = "center", ![i].t = 0,
                                      ![i].settled = calls[i].t,
                                      ![i].startPos = meshPosition,
                                      ![i].targetPos = CenterTargets(calls[i].involved, meshPosition)]
            /\ raf' = Append(raf, i)
            /\ UNCHANGED meshVars
       ELSE /\ calls' = [calls EXCEPT ![i].pc = "done", ![i].settled = calls[i].t,
                                      ![i].resolvedPos = meshPosition]
            /\ UNCHANGED <<meshVars, raf>>
    /\ UNCHANGED <<snapVars, restored>>
    /\ UNCHANGED meshParent

\* The animate() callback of one call, on the state st = [vis, op, tr, pos, cs, raf].
Animate(i, st) ==
    LET c == st.cs[i]
        finished == c.t >= Duration(c.pc)
        again == IF finished THEN st.raf ELSE Append(st.raf, i)
    IN CASE c.pc = "fade" ->
              [st EXCEPT
                 !.op = [m \in Meshes |-> IF m \in c.toFade THEN FadeOpacity(c.t) ELSE st.op[m]],
                 !.vis = [m \in Meshes |-> IF finished /\ m \in c.toFade THEN FALSE ELSE st.vis[m]],
                 !.cs = IF finished
                        THEN [st.cs EXCEPT ![i].pc = "settle", ![i].t = 0, ![i].faded = TRUE]
                        ELSE st.cs,
                 !.raf = again]
         [] c.pc = "center" ->
              LET moved == [m \in Meshes |-> IF m \in c.involved
                                             THEN EasedPosition(c.startPos[m], c.targetPos[m], c.t)
                                             ELSE st.pos[m]]
              IN [st EXCEPT
                    !.pos = moved,
                    !.cs = IF finished
                           THEN [st.cs EXCEPT ![i].pc = "done", ![i].resolvedPos = moved]
                           ELSE st.cs,
                    !.raf = again]
         [] c.pc = "fadeIn" ->
              [st EXCEPT
                 !.op = [m \in Meshes |->
                           IF m \in c.shown
                           THEN FadeInOpacity(c.startOpacity[m], c.targetOpacity[m], c.t)
                           ELSE st.op[m]],
                 !.tr = [m \in Meshes |-> IF finished /\ m \in c.shown THEN c.targetTransparent[m]
                                          ELSE st.tr[m]],
                 !.cs = IF finished THEN [st.cs EXCEPT ![i].pc = "done"] ELSE st.cs,
                 !.raf = again]

RECURSIVE RunCallbacks(_, _)
RunCallbacks(pending, st) ==
    IF pending = <<>> THEN st
    ELSE RunCallbacks(Tail(pending), Animate(Head(pending), st))

\* One animation frame: the pending callbacks run in the order they were requested.
animationFrame ==
    /\ raf # <<>>
    /\ LET st == RunCallbacks(raf, [vis |-> meshVisible, op |-> meshOpacity,
                                    tr |-> meshTransparent, pos |-> meshPosition,
                                    cs |-> calls, raf |-> <<>>])
       IN /\ meshVisible' = st.vis
          /\ meshOpacity' = st.op
          /\ meshTransparent' = st.tr
          /\ meshPosition' = st.pos
          /\ calls' = st.cs
          /\ raf' = st.raf
    /\ visLast' = [ev |-> "frame", ran |-> Range(raf)]
    /\ UNCHANGED <<snapVars, restored>>
    /\ UNCHANGED meshParent

\* The clock advances by TickMs.  A timer that is due fires, and the pending
\* animation callbacks run, before the clock advances further (the display
\* refreshes many times per TickMs).
tick ==
    /\ ~Quiescent
    /\ raf # <<>> => visLast.ev = "frame"
    /\ \A i \in DOMAIN calls :
         calls[i].pc \in {"delay", "settle"} => calls[i].t < Duration(calls[i].pc)
    /\ calls' = [i \in DOMAIN calls |->
                   IF InFlight(calls[i])
                   THEN [calls[i] EXCEPT !.t = Min(@ + TickMs, Duration(calls[i].pc))]
                   ELSE calls[i]]
    /\ visLast' = [ev |-> "tick", ran |-> {}]
    /\ UNCHANGED <<meshVars, snapVars, raf, restored>>
    /\ UNCHANGED meshParent

\* The scene as loaded, and the manager as its constructor leaves it.
VisNew ==
    /\ meshParent = FlatScene
    /\ meshVisible = [m \in Meshes |-> TRUE]
    /\ meshOpacity = [m \in Meshes |-> InitialOpacity[m]]
    /\ meshTransparent = [m \in Meshes |-> InitialTransparent[m]]
    /\ meshPosition = [m \in Meshes |-> InitialPosition[m]]
    /\ allBaseMeshNames = {}
    /\ originalPositions = <<>>
    /\ originalMaterialProps = <<>>
    /\ calls = <<>>
    /\ raf = <<>>
    /\ restored = FALSE
    /\ visLast = [ev |-> "init", ran |-> {}]

VisCtor ==
    /\ loaderMeshes = Meshes
    /\ VisNew

\* The manager as the application starts it: constructed, then initialize()
\* on a loader that holds every mesh.
VisStarted ==
    /\ loaderMeshes = Meshes
    /\ meshVisible = [m \in Meshes |-> TRUE]
    /\ meshOpacity = [m \in Meshes |-> InitialOpacity[m]]
    /\ meshTransparent = [m \in Meshes |-> InitialTransparent[m]]
    /\ meshPosition = [m \in Meshes |-> InitialPosition[m]]
    /\ allBaseMeshNames = {GroupOf[m] : m \in Meshes}
    /\ originalPositions = [m \in Meshes |-> InitialPosition[m]]
    /\ originalMaterialProps =
         [m \in Meshes |-> [transparent |-> InitialTransparent[m], opacity |-> InitialOpacity[m]]]
    /\ calls = <<>>
    /\ raf = <<>>
    /\ restored = FALSE
    /\ visLast = [ev |-> "initialize", ran |-> {}]

VisReady ==
    /\ meshParent = FlatScene
    /\ VisStarted

\* ------------------------------------------------------------------------
\* OutlineManager: the blinking outline
\* ------------------------------------------------------------------------

\* The frequency the constructor sets, in Hz.
DefaultBlinkFreq == 2

\* The frequencies, frame times (ms) and selections the callers use.
BlinkFreqs == {1, 2, 4}
DeltaTimes == {125, 250, 300, 500}
Selections == {<<>>, <<1>>, <<1, 2>>}

\* At most MaxUpdates update() calls are made between two setBlinking() calls.
MaxUpdates == 4

\* "const period = 1.0 / this.blinkFreq", and period / 2, in milliseconds.
HalfPeriodMs(freq) == (1000 \div freq) \div 2

NotCleared == [from |-> "no", updates |-> 0]

\* applySingleColorOutline(meshes): the selection is stored and handed to the pass.
applySingleColorOutline(meshes) ==
    /\ selectedObjects' = meshes
    /\ outlineSelected' = meshes
    /\ blinkDisabled' = "no"
    /\ UNCHANGED <<isBlinking, blinkFreq, blinkTimer, blinkVisible,
                   blinkElapsed, blinkToggles, blinkUpdates>>
    /\ blinkCleared' = NotCleared

\* setSelectedObjects(objects): the pass alone gets the objects.
setSelectedObjects(objects) ==
    /\ outlineSelected' = objects
    /\ blinkDisabled' = "no"
    /\ UNCHANGED <<isBlinking, blinkFreq, blinkTimer, blinkVisible, selectedObjects,
                   blinkElapsed, blinkToggles, blinkUpdates>>
    /\ blinkCleared' = NotCleared

\* setBlinking(enabled, freq)
setBlinking(enabled, freq) ==
    /\ isBlinking' = enabled
    /\ blinkFreq' = freq
    /\ blinkTimer' = 0
    /\ blinkVisible' = TRUE
    /\ outlineSelected' = IF ~enabled THEN selectedObjects ELSE outlineSelected
    /\ blinkElapsed' = 0
    /\ blinkToggles' = 0
    /\ blinkUpdates' = 0
    /\ blinkDisabled' = IF enabled THEN "no"
                        ELSE IF outlineSelected = selectedObjects THEN "fromShown"
                        ELSE "fromHidden"
    /\ UNCHANGED selectedObjects
    /\ blinkCleared' = NotCleared

\* update() without the test of isBlinking.
updateUnguarded(deltaTime) ==
    /\ blinkUpdates < MaxUpdates
    /\ blinkUpdates' = blinkUpdates + 1
    /\ blinkElapsed' = blinkElapsed + deltaTime
    /\ IF blinkTimer + deltaTime >= HalfPeriodMs(blinkFreq)
       THEN /\ blinkTimer' = 0
            /\ blinkVisible' = ~blinkVisible
            /\ outlineSelected' = IF ~blinkVisible THEN selectedObjects ELSE <<>>
            /\ blinkToggles' = blinkToggles + 1
       ELSE /\ blinkTimer' = blinkTimer + deltaTime
            /\ UNCHANGED <<blinkVisible, outlineSelected, blinkToggles>>
    /\ UNCHANGED <<isBlinking, blinkFreq, selectedObjects, blinkDisabled>>
    /\ blinkCleared' = IF blinkCleared.from = "no" THEN blinkCleared
                       ELSE [blinkCleared EXCEPT !.updates = @ + 1]

\* update(deltaTime): nothing unless blinking; the timer grows by deltaTime
\* and, once it has reached half a period, is set to 0 and the flag toggles.
update(deltaTime) ==
    /\ blinkUpdates < MaxUpdates
    /\ blinkUpdates' = blinkUpdates + 1
    /\ IF ~isBlinking
       THEN UNCHANGED <<blinkTimer, blinkVisible, outlineSelected, blinkElapsed, blinkToggles>>
       ELSE /\ blinkElapsed' = blinkElapsed + deltaTime
            /\ IF blinkTimer + deltaTime >= HalfPeriodMs(blinkFreq)
               THEN /\ blinkTimer' = 0
                    /\ blinkVisible' = ~blinkVisible
                    /\ outlineSelected' = IF ~blinkVisible THEN selectedObjects ELSE <<>>
                    /\ blinkToggles' = blinkToggles + 1
               ELSE /\ blinkTimer' = blinkTimer + deltaTime
                    /\ UNCHANGED <<blinkVisible, outlineSelected, blinkToggles>>
    /\ UNCHANGED <<isBlinking, blinkFreq, selectedObjects, blinkDisabled>>
    /\ blinkCleared' = IF blinkCleared.from = "no" THEN blinkCleared
                       ELSE [blinkCleared EXCEPT !.updates = @ + 1]

\* clear() without "this.isBlinking = false".
clearKeepBlinking ==
    /\ selectedObjects' = <<>>
    /\ outlineSelected' = <<>>
    /\ blinkTimer' = 0
    /\ blinkVisible' = TRUE
    /\ blinkDisabled' = "no"
    /\ blinkCleared' = [from |-> IF isBlinking THEN "blinking" ELSE "idle", updates |-> 0]
    /\ UNCHANGED <<isBlinking, blinkFreq, blinkElapsed, blinkToggles, blinkUpdates>>

\* clear(): no selection, no blinking.  blinkFreq is left as it is.
clear ==
    /\ selectedObjects' = <<>>
    /\ outlineSelected' = <<>>
    /\ isBlinking' = FALSE
    /\ blinkTimer' = 0
    /\ blinkVisible' = TRUE
    /\ blinkDisabled' = "no"
    /\ blinkCleared' = [from |-> IF isBlinking THEN "blinking" ELSE "idle", updates |-> 0]
    /\ UNCHANGED <<blinkFreq, blinkElapsed, blinkToggles, blinkUpdates>>

BlinkCtor ==
    /\ selectedObjects = <<>>
    /\ outlineSelected = <<>>
    /\ isBlinking = FALSE
    /\ blinkFreq = DefaultBlinkFreq
    /\ blinkTimer = 0
    /\ blinkVisible = TRUE
    /\ blinkElapsed = 0
    /\ blinkToggles = 0
    /\ blinkUpdates = 0
    /\ blinkDisabled = "no"
    /\ blinkCleared = NotCleared

\* ------------------------------------------------------------------------
\* AssemblyAnimator
\* ------------------------------------------------------------------------

\* "animConfig.offset || 0.5", in tenths, and "(animConfig.duration || 1.0) * 1000".
DefaultOffset == 5
DefaultDurationMs == 1000

\* Most entries in a step's animations, most clones made, most
\* playAssemblyAnimation calls and most direct _animateCloneToTarget calls.
MaxEntries == 2
MaxClones == 4
MaxPlays == 1
MaxDirect == 1

\* The animation entries: base name "a" (mesh 1) from +X over 0.5 s with the
\* default offset; base name "b" (meshes 2 and 3) from -X with offset 0.2 and
\* the default duration.  0 stands for a field the entry does not give.
AnimEntries ==
    {[mesh |-> "a", direction |-> "+X", offset |-> 0, duration |-> 500],
     [mesh |-> "b", direction |-> "-X", offset |-> 2, duration |-> 0]}

StepAnimations == SeqsUpTo(AnimEntries, MaxEntries) \ {<<>>}

StepIds == {"s1", "s9"}

\* this.animationConfig?.[stepId]: step "s1" is configured, no other step is.
StepConfig(stepId) ==
    IF stepId = "s1" THEN [isNull |-> FALSE, animations |-> animationConfig]
    ELSE [isNull |-> TRUE, animations |-> <<>>]

\* _parseDirection, along the axis modelled (X).
parseDirection(direction) ==
    CASE direction = "+X" -> 1
      [] direction = "-X" -> 0 - 1
      [] OTHER -> 0

ConfigOffset(animConfig) == IF animConfig.offset = 0 THEN DefaultOffset ELSE animConfig.offset

ConfigDuration(animConfig) ==
    IF animConfig.duration = 0 THEN DefaultDurationMs ELSE animConfig.duration

\* _getMeshesByName: the meshes of the loader's base group, in the group's order.
RECURSIVE SortedSeq(_)
SortedSeq(S) == IF S = {} THEN <<>> ELSE <<SetMin(S)>> \o SortedSeq(S \ {SetMin(S)})

getMeshesByName(baseName) == SortedSeq(MeshesOfNames({baseName}))

\* The (entry, mesh) pairs createAnimationClones walks through, in its order.
RECURSIVE ClonePairs(_, _)
ClonePairs(animations, k) ==
    IF k > Len(animations) THEN <<>>
    ELSE [j \in DOMAIN getMeshesByName(animations[k].mesh) |->
             [entry |-> k, mesh |-> getMeshesByName(animations[k].mesh)[j]]]
         \o ClonePairs(animations, k + 1)

\* clearClones(): the clones animationClones holds are taken off their parents.
ClearedClones ==
    [i \in DOMAIN clones |->
        IF \E m \in DOMAIN animationClones : animationClones[m] = i
        THEN [clones[i] EXCEPT !.attached = FALSE]
        ELSE clones[i]]

clearClones ==
    /\ clones' = ClearedClones
    /\ animationClones' = <<>>
    /\ animationOffsets' = <<>>
    /\ animLast' = [animLast EXCEPT !.op = "clear"]
    /\ UNCHANGED <<animationConfig, anims, plays, animRaf, meshVars>>

\* The number of the createAnimationClones call that makes the next clones.
NextGen == IF clones = <<>> THEN 1 ELSE clones[Len(clones)].gen + 1

\* createAnimationClones(stepAnimation, droneModel, scene): nothing without
\* animations; else clearClones(), then one clone per entry and mesh, hidden
\* at its offset position and attached next to its mesh; animationOffsets is
\* keyed by the clone's uuid, animationClones by the mesh's.
createAnimationClones(stepAnimation) ==
    /\ animLast' = [animLast EXCEPT !.op = "create"]
    /\ IF stepAnimation.isNull
       THEN UNCHANGED <<clones, animationClones, animationOffsets>>
       ELSE LET pairs == ClonePairs(stepAnimation.animations, 1)
                n == Len(clones)
                made == [j \in DOMAIN pairs |->
                           LET animConfig == stepAnimation.animations[pairs[j].entry]
                               mesh == pairs[j].mesh
                           IN [mesh |-> mesh, entry |-> pairs[j].entry, gen |-> NextGen,
                               attached |-> TRUE, visible |-> FALSE,
                               position |-> meshPosition[mesh]
                                   + parseDirection(animConfig.direction)
                                     * (0 - ConfigOffset(animConfig)),
                               opacity |-> 0, isNaN |-> FALSE,
                               target |-> meshPosition[mesh], started |-> FALSE]]
            IN /\ n + Len(pairs) <= MaxClones
               /\ clones' = ClearedClones \o made
               /\ animationOffsets' =
                    [c \in {n + j : j \in DOMAIN pairs} |->
                        [originalMesh |-> pairs[c - n].mesh,
                         targetPosition |-> meshPosition[pairs[c - n].mesh]]]
               /\ animationClones' =
                    [m \in {pairs[j].mesh : j \in DOMAIN pairs} |->
                        n + SetMax({j \in DOMAIN pairs : pairs[j].mesh = m})]
    /\ UNCHANGED <<animationConfig, anims, plays, animRaf, meshVars>>

\* The eased progress of animate(), as a fraction num / (duration * duration):
\* p < 0.5 ? 2p^2 : 1 - (2 - 2p)^2 / 2 with p = min(elapsed / duration, 1).
EasedNum(elapsed, duration) ==
    LET e == Min(elapsed, duration)
    IN IF 2 * e < duration THEN 2 * e * e
       ELSE duration * duration - 2 * (duration - e) * (duration - e)

EasedClone(start, target, elapsed, duration) ==
    start + ((target - start) * EasedNum(elapsed, duration)) \div (duration * duration)

EasedOpacity(elapsed, duration) ==
    (OpacityOne * EasedNum(elapsed, duration)) \div (duration * duration)

\* _animateCloneToTarget(clone, duration) with duration > 0, up to the first
\* animate(), on the state st = [cl, an, rq, pl, vis, op]: without offset
\* data the call returns at once; else the clone is shown, animate() at
\* elapsed 0 writes the start position and opacity 0 and asks for a frame.
StartAnimation(st, c, duration, play) ==
    IF c \notin DOMAIN animationOffsets
    THEN [st EXCEPT !.an = Append(st.an,
             [clone |-> c, startPosition |-> 0, targetPosition |-> 0, originalMesh |-> 0,
              duration |-> duration, t |-> 0, pc |-> "done", play |-> play])]
    ELSE [st EXCEPT
            !.cl[c].visible = TRUE,
            !.cl[c].started = TRUE,
            !.cl[c].opacity = 0,
            !.an = Append(st.an,
               [clone |-> c, startPosition |-> st.cl[c].position,
                targetPosition |-> animationOffsets[c].targetPosition,
                originalMesh |-> animationOffsets[c].originalMesh,
                duration |-> duration, t |-> 0, pc |-> "run", play |-> play]),
            !.rq = Append(st.rq, Len(st.an) + 1)]

\* (Each intermediate state is bound as a value, so that it is computed once.)
RECURSIVE StartAll(_, _, _, _)
StartAll(st, cs, duration, play) ==
    IF cs = <<>> THEN st
    ELSE CHOOSE r \in {StartAll(next, Tail(cs), duration, play) :
                          next \in {StartAnimation(st, Head(cs), duration, play)}} : TRUE

\* The loop of playAssemblyAnimation from entry k on, up to its next
\* suspension: the clones of the entry's meshes are animated together and the
\* loop awaits them all; an entry that starts nothing is passed at once.
RECURSIVE PlayFrom(_, _, _)
PlayFrom(st, p, k) ==
    LET animations == StepConfig(st.pl[p].stepId).animations IN
    IF k > Len(animations) THEN [st EXCEPT !.pl[p].pc = "done"]
    ELSE LET meshes == getMeshesByName(animations[k].mesh)
             cs == SelectSeq(meshes, LAMBDA m : m \in DOMAIN animationClones)
         IN CHOOSE r \in
               {IF \E i \in DOMAIN awaited.an :
                      awaited.an[i].play = p /\ awaited.an[i].pc = "run"
                THEN [awaited EXCEPT !.pl[p].idx = k]
                ELSE PlayFrom(awaited, p, k + 1) :
                   awaited \in {StartAll(st, [j \in DOMAIN cs |-> animationClones[cs[j]]],
                                         ConfigDuration(animations[k]), p)}} : TRUE

AnimState ==
    [cl |-> clones, an |-> anims, rq |-> animRaf, pl |-> plays,
     vis |-> meshVisible, op |-> meshOpacity]

\* playAssemblyAnimation(stepId, droneModel), up to its first suspension.
playAssemblyAnimation(stepId) ==
    /\ animLast' = [op |-> "play", framed |-> FALSE]
    /\ IF StepConfig(stepId).isNull
       THEN /\ plays' = Append(plays, [stepId |-> stepId, idx |-> 0, pc |-> "done"])
            /\ UNCHANGED <<clones, anims, animRaf>>
       ELSE LET st == PlayFrom([AnimState EXCEPT
                                   !.pl = Append(plays, [stepId |-> stepId, idx |-> 1,
                                                         pc |-> "run"])],
                               Len(plays) + 1, 1)
            IN /\ plays' = st.pl
               /\ clones' = st.cl
               /\ anims' = st.an
               /\ animRaf' = st.rq
    /\ UNCHANGED <<animationConfig, animationClones, animationOffsets, meshVars>>

\* _animateCloneToTarget(clone, duration) called on its own.  With duration 0
\* the first animate() divides by zero: progress is NaN when the clock has
\* not moved since startTime and 1 when it has; in both cases
\* "progress < 1" is false, so the clone is hidden, the original mesh is
\* shown and the promise resolves, with the clone at NaN or at its target.
animateCloneToTarget(c, duration, clockMoved) ==
    /\ c \in DOMAIN clones
    /\ animLast' = [op |-> "animate", framed |-> FALSE]
    /\ IF duration > 0 \/ c \notin DOMAIN animationOffsets
       THEN LET st == StartAnimation(AnimState, c, duration, 0)
            IN /\ clones' = st.cl
               /\ anims' = st.an
               /\ animRaf' = st.rq
               /\ UNCHANGED <<meshVisible, meshOpacity>>
       ELSE LET data == animationOffsets[c] IN
            /\ clones' = [clones EXCEPT
                 ![c].visible = FALSE,
                 ![c].started = TRUE,
                 ![c].isNaN = ~clockMoved,
                 ![c].position = IF clockMoved THEN data.targetPosition ELSE @,
                 ![c].opacity = IF clockMoved THEN OpacityOne ELSE @]
            /\ anims' = Append(anims,
                 [clone |-> c, startPosition |-> clones[c].position,
                  targetPosition |-> data.targetPosition, originalMesh |-> data.originalMesh,
                  duration |-> 0, t |-> 0, pc |-> "done", play |-> 0])
            /\ meshVisible' = [meshVisible EXCEPT ![data.originalMesh] = TRUE]
            /\ meshOpacity' = [meshOpacity EXCEPT ![data.originalMesh] = OpacityOne]
            /\ UNCHANGED animRaf
    /\ UNCHANGED <<animationConfig, animationClones, animationOffsets, plays,
                   meshTransparent, meshPosition>>

\* animate() with "progress <= 1" in place of "progress < 1": it asks for
\* another frame at progress 1 too.
AnimateCloneOpenEnded(i, st) ==
    LET a == st.an[i]
    IN [st EXCEPT
          !.cl[a.clone].position =
              EasedClone(a.startPosition, a.targetPosition, a.t, a.duration),
          !.cl[a.clone].opacity = EasedOpacity(a.t, a.duration),
          !.rq = Append(st.rq, i)]

\* The animate() callback of call i: the clone moves and fades in; at
\* progress 1 it is hidden, the original mesh is shown at opacity 1 and the
\* promise resolves.  When that was the last promise the loop of
\* playAssemblyAnimation awaited, the loop goes on before any other callback.
AnimateClone(i, st) ==
    LET a == st.an[i]
        finished == a.t >= a.duration
        moved == [st EXCEPT
                    !.cl[a.clone].position =
                        EasedClone(a.startPosition, a.targetPosition, a.t, a.duration),
                    !.cl[a.clone].opacity = EasedOpacity(a.t, a.duration)]
    IN IF ~finished THEN [moved EXCEPT !.rq = Append(moved.rq, i)]
       ELSE CHOOSE r \in
               {IF /\ a.play # 0
                   /\ \A j \in DOMAIN resolved.an :
                         resolved.an[j].play = a.play => resolved.an[j].pc = "done"
                THEN PlayFrom(resolved, a.play, resolved.pl[a.play].idx + 1)
                ELSE resolved :
                   resolved \in {[moved EXCEPT
                                    !.cl[a.clone].visible = FALSE,
                                    !.vis[a.originalMesh] = TRUE,
                                    !.op[a.originalMesh] = OpacityOne,
                                    !.an[i].pc = "done"]}} : TRUE

RECURSIVE RunAnimCallbacks(_, _)
RunAnimCallbacks(pending, st) ==
    IF pending = <<>> THEN st
    ELSE CHOOSE r \in {RunAnimCallbacks(Tail(pending), next) :
                          next \in {AnimateClone(Head(pending), st)}} : TRUE

\* One animation frame: the pending callbacks run in the order they were requested.
animatorFrame ==
    /\ animRaf # <<>>
    /\ \E st \in {RunAnimCallbacks(animRaf, [AnimState EXCEPT !.rq = <<>>])} :
          /\ clones' = st.cl
          /\ anims' = st.an
          /\ animRaf' = st.rq
          /\ plays' = st.pl
          /\ meshVisible' = st.vis
          /\ meshOpacity' = st.op
    /\ animLast' = [op |-> "frame", framed |-> TRUE]
    /\ UNCHANGED <<animationConfig, animationClones, animationOffsets,
                   meshTransparent, meshPosition>>

\* The clock advances by TickMs; the pending animation callbacks run before
\* it advances further.
animatorTick ==
    /\ \E i \in DOMAIN anims : anims[i].pc = "run"
    /\ animRaf # <<>> => animLast.framed
    /\ anims' = [i \in DOMAIN anims |->
                   IF anims[i].pc = "run"
                   THEN [anims[i] EXCEPT !.t = Min(@ + TickMs, anims[i].duration)]
                   ELSE anims[i]]
    /\ animLast' = [op |-> "tick", framed |-> FALSE]
    /\ UNCHANGED <<animationConfig, clones, animationClones, animationOffsets, plays,
                   animRaf, meshVars>>

AnimCtor ==
    /\ clones = <<>>
    /\ animationClones = <<>>
    /\ animationOffsets = <<>>
    /\ anims = <<>>
    /\ plays = <<>>
    /\ animRaf = <<>>
    /\ animLast = [op |-> "new", framed |-> FALSE]

AnimIdle ==
    /\ animationConfig = <<>>
    /\ AnimCtor

AsmCtor ==
    /\ current_step = 0
    /\ is_assembling = FALSE
    /\ waiting = <<>>
    /\ asmLast = [op |-> "new", threw |-> FALSE]
    /\ sinceReset = FALSE

InitAsm ==
    /\ assembly_config \in AsmConfigs
    /\ AsmCtor
    /\ rootModel = <<>>
    /\ GrpIdle
    /\ VisCtor
    /\ BlinkCtor
    /\ AnimIdle

NextAsm ==
    \/ \E step \in 0..MaxSeq : startAssembly(step) /\ UNCHANGED <<grpVars, visVars, blinkVars, animVars>>
    \/ \E c \in FiniteClips : clipFinished(c) /\ UNCHANGED <<grpVars, visVars, blinkVars, animVars>>
    \/ resetAssembly /\ UNCHANGED <<grpVars, visVars, blinkVars, animVars>>

SpecAsm == InitAsm /\ [][NextAsm]_vars

\* ------------------------------------------------------------------------
\* MeshGroupLoader: the configurations and scenes checked
\* ------------------------------------------------------------------------

Mesh(name) == [name |-> name, isMesh |-> TRUE]

AsmIdle ==
    /\ assembly_config = [loaded |-> FALSE, hasParts |-> FALSE, sequence |-> <<>>]
    /\ AsmCtor

\* ---- SpecGroups: assembled-group configurations over a fixed small scene.
\* Most assembled groups in one configuration.
MaxGroups == 2

GroupScenes ==
    { <<Mesh(<<"w">>), Mesh(<<"w", "_", "1">>), Mesh(<<"x">>)>>,
      <<Mesh(<<"w", "_", "1">>), Mesh(<<"w">>)>> }

\* The reference lists of an assembled group: base groups, a base group
\* twice, other assembled groups, itself, a name nothing defines.
RefLists ==
    { <<>>, <<<<"w">>>>, <<<<"w">>, <<"w">>>>, <<<<"w">>, <<"x">>>>,
      <<<<"A">>>>, <<<<"B">>>>, <<<<"A">>, <<"w">>>>, <<<<"B">>, <<"x">>>>,
      <<<<"B">>, <<"B">>>>, <<<<"w">>, <<"B">>, <<"w">>>> }

GroupEntries ==
    {[name |-> n, baseNames |-> <<>>, groups |-> g] : n \in {<<"A">>, <<"B">>}, g \in RefLists}
    \cup {[name |-> <<"w">>, baseNames |-> <<>>, groups |-> <<<<"x">>>>],
          [name |-> <<"A">>, baseNames |-> <<<<"w">>>>, groups |-> <<<<"w">>, <<"B">>>>],
          [name |-> <<"B">>, baseNames |-> <<<<"x">>, <<"w">>>>, groups |-> <<>>]}

LookupNames == {<<"A">>, <<"B">>, <<"w">>, <<"x">>, <<"z">>}

InitGroups ==
    /\ rootModel \in GroupScenes
    /\ meshGroupConfig \in
         {[baseNames |-> <<<<"w">>, <<"x">>>>, assembledGroups |-> ag] :
             ag \in SeqsUpTo(GroupEntries, MaxGroups)}
    /\ GrpCtor
    /\ AsmIdle
    /\ VisCtor
    /\ BlinkCtor
    /\ AnimIdle

NextGroups ==
    \/ buildGroups /\ UNCHANGED <<asmVars, visVars, blinkVars, animVars>>
    \/ \E name \in LookupNames : lookupName(name) /\ UNCHANGED <<asmVars, visVars, blinkVars, animVars>>

SpecGroups == InitGroups /\ [][NextGroups]_vars

\* ---- SpecNames: scenes of meshes with look-alike names, one base name each.
\* Most objects in a scene.
MaxScene == 3

NamePool ==
    { <<"w">>, <<"w", "_", "0">>, <<"w", "_", "1">>, <<"w", "_", "2">>,
      <<"w", "_", "1", "2">>, <<"w", "2">>, <<"w", "n">>, <<"w", "_", "m">>,
      <<"w", "w">>, <<"w", "+">>, <<"w", "+", "_", "1">>, <<"w", ".">> }

SceneObjects ==
    {Mesh(n) : n \in NamePool} \cup {[name |-> <<"w", "_", "1">>, isMesh |-> FALSE]}

BaseNamePool == {<<"w">>, <<"w", "+">>, <<"w", ".">>}

InitNames ==
    /\ rootModel \in SeqsUpTo(SceneObjects, MaxScene)
    /\ meshGroupConfig \in
         {[baseNames |-> <<b>>, assembledGroups |-> <<>>] : b \in BaseNamePool}
    /\ GrpCtor
    /\ AsmIdle
    /\ VisCtor
    /\ BlinkCtor
    /\ AnimIdle

NextNames ==
    \/ buildGroups /\ UNCHANGED <<asmVars, visVars, blinkVars, animVars>>
    \/ \E name \in BaseNamePool : lookupName(name) /\ UNCHANGED <<asmVars, visVars, blinkVars, animVars>>

SpecNames == InitNames /\ [][NextNames]_vars

\* ---- SpecVis: the VisibilityManager, initialized, under calls that need
\* not wait for one another.
InitVis ==
    /\ VisReady
    /\ AsmIdle
    /\ GrpIdle
    /\ BlinkCtor
    /\ AnimIdle

NextVis ==
    \/ \E step \in Steps :
          Len(calls) < MaxCalls /\ showOnlyStepMeshes(step) /\ UNCHANGED <<asmVars, grpVars, blinkVars, animVars>>
    \/ Len(calls) < MaxCalls /\ showAll /\ UNCHANGED <<asmVars, grpVars, blinkVars, animVars>>
    \/ resetPositions /\ UNCHANGED <<asmVars, grpVars, blinkVars, animVars>>
    \/ \E i \in 1..MaxCalls : timerFired(i) /\ UNCHANGED <<asmVars, grpVars, blinkVars, animVars>>
    \/ animationFrame /\ UNCHANGED <<asmVars, grpVars, blinkVars, animVars>>
    \/ tick /\ UNCHANGED <<asmVars, grpVars, blinkVars, animVars>>

SpecVis == InitVis /\ [][NextVis]_vars

\* ---- SpecStaging: showOnlyStepMeshes, one call after the other, on each
\* scene graph.
InitStaging ==
    /\ meshParent \in SceneGraphs
    /\ VisStarted
    /\ AsmIdle
    /\ GrpIdle
    /\ BlinkCtor
    /\ AnimIdle

NextStaging ==
    \/ \E step \in Steps :
          /\ Len(calls) < MaxCalls
          /\ Quiescent
          /\ showOnlyStepMeshes(step)
          /\ UNCHANGED <<asmVars, grpVars, blinkVars, animVars>>
    \/ \E i \in 1..MaxCalls : timerFired(i) /\ UNCHANGED <<asmVars, grpVars, blinkVars, animVars>>
    \/ animationFrame /\ UNCHANGED <<asmVars, grpVars, blinkVars, animVars>>
    \/ tick /\ UNCHANGED <<asmVars, grpVars, blinkVars, animVars>>

SpecStaging == InitStaging /\ [][NextStaging]_vars

\* ---- SpecRestore: the VisibilityManager from its constructor on, with
\* initialize() and the loader's rebuild, under a caller that awaits each
\* call before it makes the next.
InitRestore ==
    /\ loaderMeshes \in LoaderScenes
    /\ VisNew
    /\ AsmIdle
    /\ GrpIdle
    /\ BlinkCtor
    /\ AnimIdle

NextRestore ==
    \/ initialize /\ UNCHANGED <<asmVars, grpVars, blinkVars, animVars>>
    \/ groupsRebuilt /\ UNCHANGED <<asmVars, grpVars, blinkVars, animVars>>
    \/ \E step \in Steps :
          /\ Len(calls) < MaxCalls
          /\ Quiescent
          /\ showOnlyStepMeshes(step)
          /\ UNCHANGED <<asmVars, grpVars, blinkVars, animVars>>
    \/ Len(calls) < MaxCalls /\ Quiescent /\ showAll /\ UNCHANGED <<asmVars, grpVars, blinkVars, animVars>>
    \/ resetPositions /\ UNCHANGED <<asmVars, grpVars, blinkVars, animVars>>
    \/ \E i \in 1..MaxCalls : timerFired(i) /\ UNCHANGED <<asmVars, grpVars, blinkVars, animVars>>
    \/ animationFrame /\ UNCHANGED <<asmVars, grpVars, blinkVars, animVars>>
    \/ tick /\ UNCHANGED <<asmVars, grpVars, blinkVars, animVars>>

SpecRestore == InitRestore /\ [][NextRestore]_vars

\* ---- SpecBlink: the blinking outline of the OutlineManager.
VisIdle == VisCtor

InitBlink ==
    /\ BlinkCtor
    /\ AnimIdle
    /\ AsmIdle
    /\ GrpIdle
    /\ VisIdle

NextBlink ==
    \/ \E meshes \in Selections :
          applySingleColorOutline(meshes) /\ UNCHANGED <<asmVars, grpVars, visVars, animVars>>
    \/ \E objects \in Selections :
          setSelectedObjects(objects) /\ UNCHANGED <<asmVars, grpVars, visVars, animVars>>
    \/ \E enabled \in BOOLEAN, freq \in BlinkFreqs :
          setBlinking(enabled, freq) /\ UNCHANGED <<asmVars, grpVars, visVars, animVars>>
    \/ \E deltaTime \in DeltaTimes : update(deltaTime) /\ UNCHANGED <<asmVars, grpVars, visVars, animVars>>
    \/ clear /\ UNCHANGED <<asmVars, grpVars, visVars, animVars>>

SpecBlink == InitBlink /\ [][NextBlink]_vars

\* ---- SpecOutline: the OutlineManager driven through applySingleColorOutline,
\* setBlinking, update and clear alone (setSelectedObjects is never called).
NextOutline ==
    \/ \E meshes \in Selections :
          applySingleColorOutline(meshes) /\ UNCHANGED <<asmVars, grpVars, visVars, animVars>>
    \/ \E enabled \in BOOLEAN, freq \in BlinkFreqs :
          setBlinking(enabled, freq) /\ UNCHANGED <<asmVars, grpVars, visVars, animVars>>
    \/ \E deltaTime \in DeltaTimes : update(deltaTime) /\ UNCHANGED <<asmVars, grpVars, visVars, animVars>>
    \/ clear /\ UNCHANGED <<asmVars, grpVars, visVars, animVars>>

SpecOutline == InitBlink /\ [][NextOutline]_vars

\* ---- SpecAnim: the AssemblyAnimator on the initialized scene, driven
\* through createAnimationClones, playAssemblyAnimation and clearClones.
InitAnim ==
    /\ animationConfig \in StepAnimations
    /\ AnimCtor
    /\ VisReady
    /\ AsmIdle
    /\ GrpIdle
    /\ BlinkCtor

OtherVisVars == <<meshParent, snapVars, calls, raf, restored, visLast>>

NextAnim ==
    \/ \E stepId \in StepIds :
          /\ createAnimationClones(StepConfig(stepId))
          /\ UNCHANGED <<asmVars, grpVars, blinkVars, OtherVisVars>>
    \/ \E stepId \in StepIds :
          /\ Len(plays) < MaxPlays
          /\ playAssemblyAnimation(stepId)
          /\ UNCHANGED <<asmVars, grpVars, blinkVars, OtherVisVars>>
    \/ clearClones /\ UNCHANGED <<asmVars, grpVars, blinkVars, OtherVisVars>>
    \/ animatorFrame /\ UNCHANGED <<asmVars, grpVars, blinkVars, OtherVisVars>>
    \/ animatorTick /\ UNCHANGED <<asmVars, grpVars, blinkVars, OtherVisVars>>

SpecAnim == InitAnim /\ [][NextAnim]_vars

\* ---- SpecLive: the promises of the VisibilityManager and of the
\* AssemblyAnimator under fair scheduling: a due timer fires, a requested
\* animation frame runs and the clock advances.  A behaviour exercises one
\* of the two managers; neither reads what the other writes.  The
\* animator's clones are animated either by playAssemblyAnimation or by direct
\* _animateCloneToTarget calls.
DirectDurations == {0, 500}

DirectCalls == {i \in DOMAIN anims : anims[i].play = 0}

LiveTimer ==
    \E i \in 1..MaxCalls : timerFired(i) /\ UNCHANGED <<asmVars, grpVars, blinkVars, animVars>>

LiveFrame == animationFrame /\ UNCHANGED <<asmVars, grpVars, blinkVars, animVars>>

LiveTick == tick /\ UNCHANGED <<asmVars, grpVars, blinkVars, animVars>>

LiveAnimatorFrame == animatorFrame /\ UNCHANGED <<asmVars, grpVars, blinkVars, OtherVisVars>>

LiveAnimatorTick == animatorTick /\ UNCHANGED <<asmVars, grpVars, blinkVars, OtherVisVars>>

\* A call is made while at most one earlier call is still in flight.
EarlierCallsDone == \A i \in 1..(Len(calls) - 1) : ~InFlight(calls[i])

NextLive ==
    \/ \E step \in Steps :
          /\ animLast.op = "new"
          /\ Len(calls) < MaxCalls
          /\ EarlierCallsDone
          /\ showOnlyStepMeshes(step)
          /\ UNCHANGED <<asmVars, grpVars, blinkVars, animVars>>
    \/ /\ animLast.op = "new"
       /\ Len(calls) < MaxCalls
       /\ EarlierCallsDone
       /\ showAll
       /\ UNCHANGED <<asmVars, grpVars, blinkVars, animVars>>
    \/ LiveTimer
    \/ LiveFrame
    \/ LiveTick
    \/ /\ calls = <<>>
       /\ createAnimationClones(StepConfig("s1"))
       /\ UNCHANGED <<asmVars, grpVars, blinkVars, OtherVisVars>>
    \/ /\ calls = <<>>
       /\ DirectCalls = {}
       /\ Len(plays) < MaxPlays
       /\ playAssemblyAnimation("s1")
       /\ UNCHANGED <<asmVars, grpVars, blinkVars, OtherVisVars>>
    \/ \E c \in 1..MaxClones, duration \in DirectDurations, clockMoved \in BOOLEAN :
          /\ calls = <<>>
          /\ plays = <<>>
          /\ Cardinality(DirectCalls) < MaxDirect
          /\ animateCloneToTarget(c, duration, clockMoved)
          /\ UNCHANGED <<asmVars, grpVars, blinkVars, meshParent, snapVars, calls, raf,
                         restored, visLast>>
    \/ /\ calls = <<>>
       /\ clearClones
       /\ UNCHANGED <<asmVars, grpVars, blinkVars, OtherVisVars>>
    \/ LiveAnimatorFrame
    \/ LiveAnimatorTick

\* A configuration with one entry of each kind: "a" moves in over 500 ms, "b"
\* names duration 0, which playAssemblyAnimation replaces by its default.
LiveConfig ==
    <<CHOOSE e \in AnimEntries : e.mesh = "a", CHOOSE e \in AnimEntries : e.mesh = "b">>

InitLive ==
    /\ animationConfig = LiveConfig
    /\ AnimCtor
    /\ VisReady
    /\ AsmIdle
    /\ GrpIdle
    /\ BlinkCtor

SpecLive ==
    /\ InitLive
    /\ [][NextLive]_vars
    /\ WF_vars(LiveTimer)
    /\ WF_vars(LiveFrame)
    /\ WF_vars(LiveTick)
    /\ WF_vars(LiveAnimatorFrame)
    /\ WF_vars(LiveAnimatorTick)

\* ------------------------------------------------------------------------
\* Claims
\* ------------------------------------------------------------------------

\* The last two asynchronous calls of the VisibilityManager.
PrevCall == calls[Len(calls) - 1]
LastCall == calls[Len(calls)]

\* Every mesh of the loader is tracked and has its originals recorded.
AllCaptured ==
    /\ Tracked = loaderMeshes
    /\ Tracked # {}
    /\ Tracked \subseteq DOMAIN originalPositions
    /\ Tracked \subseteq DOMAIN originalMaterialProps

\* initialize() ran before the last two calls, and neither it nor the loader since.
CapturedBeforeLastTwo ==
    /\ AllCaptured
    /\ PrevCall.snap = snapVars
    /\ LastCall.snap = snapVars

\* C1: when showOnlyStepMeshes(s2) is called right after showOnlyStepMeshes(s1),
\* before any callback of the first call ran, then once both calls have run to
\* completion the scene shows the partition of s2: the involved meshes of s2
\* are visible, every other tracked mesh is invisible with opacity 0.
C1_RapidSwitchShowsLastStep ==
    (/\ Len(calls) >= 2
     /\ PrevCall.kind = "show"
     /\ LastCall.kind = "show"
     /\ LastCall.rapid
     /\ CapturedBeforeLastTwo
     /\ Quiescent)
    => \A m \in Tracked :
         IF m \in LastCall.involved
         THEN meshVisible[m]
         ELSE ~meshVisible[m] /\ meshOpacity[m] = 0

\* C2: a timer or animation callback that belongs only to calls superseded by a
\* newer showOnlyStepMeshes, showAll or resetPositions changes no mesh's
\* visibility, opacity or position.
C2_StaleCallbacksWriteNothing ==
    [][(/\ visLast'.ev \in {"timer", "frame"}
        /\ visLast'.ran # {}
        /\ \A i \in visLast'.ran : calls[i].stale)
       => <<meshVisible, meshOpacity, meshPosition>>' = <<meshVisible, meshOpacity, meshPosition>>]_vars

\* C3: when showOnlyStepMeshes(s1) has run to completion and then
\* showOnlyStepMeshes(s2) runs to completion, every involved mesh of s2 is
\* visible with the opacity recorded by initialize().
C3_SequentialStepsShowInvolved ==
    (/\ Len(calls) >= 2
     /\ PrevCall.kind = "show"
     /\ LastCall.kind = "show"
     /\ ~LastCall.overlap
     /\ CapturedBeforeLastTwo
     /\ Quiescent)
    => \A m \in LastCall.involved :
         meshVisible[m] /\ meshOpacity[m] = originalMaterialProps[m].opacity

\* C4: when showAll() and then resetPositions() run while a showOnlyStepMeshes
\* call is in flight, then once everything has settled every tracked mesh is
\* visible with the opacity and at the position recorded by initialize().
C4_RestoreDuringShowRestoresAll ==
    (/\ Len(calls) >= 2
     /\ PrevCall.kind = "show"
     /\ LastCall.kind = "showAll"
     /\ LastCall.overlap
     /\ restored
     /\ CapturedBeforeLastTwo
     /\ Quiescent)
    => \A m \in Tracked :
         /\ meshVisible[m]
         /\ meshOpacity[m] = originalMaterialProps[m].opacity
         /\ meshPosition[m] = originalPositions[m]

\* C11: a configured base name that matches no mesh is still registered as a
\* base group, with no members: getBaseNames() lists it and getMeshes(name)
\* gives an empty sequence; the other groups are built all the same.
C11_EmptyGroupRegistered ==
    built =>
        \A i \in DOMAIN meshGroupConfig.baseNames :
            LET b == meshGroupConfig.baseNames[i] IN
            IF discoverMeshVariants(rootModel, b) = <<>>
            THEN /\ b \in Range(getBaseNames(groups))
                 /\ getMeshes(b, groups) = [isNull |-> FALSE, meshes |-> <<>>]
            ELSE getMeshes(b, groups) =
                    [isNull |-> FALSE, meshes |-> discoverMeshVariants(rootModel, b)]

\* C12: after a single showOnlyStepMeshes call on a freshly initialized scene
\* has finished its fade, every tracked mesh outside the involved set is
\* invisible with opacity 0 and every involved mesh has the opacity it had
\* before the call.
C12_FadeHidesOthersOnly ==
    (/\ Len(calls) = 1
     /\ calls[1].kind = "show"
     /\ calls[1].snap = snapVars
     /\ AllCaptured
     /\ calls[1].faded)
    => \A m \in Tracked :
         IF m \in calls[1].involved
         THEN meshOpacity[m] = InitialOpacity[m]
         ELSE meshOpacity[m] = 0 /\ ~meshVisible[m]

\* A single call whose fade has finished, with meshes on both sides; the
\* involved ones include the half transparent mesh.
C12_Witness ==
    /\ Len(calls) = 1
    /\ calls[1].kind = "show"
    /\ calls[1].faded
    /\ calls[1].toFade # {}
    /\ 3 \in calls[1].involved
    /\ AllCaptured

\* C13: within one showOnlyStepMeshes call the fade has run its last frame
\* (progress 1, meshes hidden) and the settle delay has passed before the
\* centring starts, so before its first position write.
C13_FadeBeforeRecentering ==
    \A i \in DOMAIN calls :
        (calls[i].kind = "show" /\ calls[i].pc \in {"center", "done"})
            => /\ calls[i].faded
               /\ calls[i].settled >= SettleMs

\* A call that is moving its meshes while another call is in flight.
C13_Witness ==
    \E i \in DOMAIN calls :
        /\ calls[i].pc = "center"
        /\ calls[i].t > 0
        /\ calls[i].toFade # {}
        /\ \E m \in calls[i].involved : meshPosition[m] # calls[i].startPos[m]
        /\ \E j \in DOMAIN calls : j # i /\ InFlight(calls[j])

\* C14: the promise of showOnlyStepMeshes resolves only when the centring has
\* reached progress 1: at resolution every involved mesh is at the target
\* position the centring computed for it.
C14_ResolvesAtTarget ==
    \A i \in DOMAIN calls :
        (calls[i].kind = "show" /\ calls[i].pc = "done" /\ calls[i].involved # {})
            => \A m \in calls[i].involved : calls[i].resolvedPos[m] = calls[i].targetPos[m]

\* A resolved call that moved two meshes.
C14_Witness ==
    \E i \in DOMAIN calls :
        /\ calls[i].kind = "show"
        /\ calls[i].pc = "done"
        /\ Cardinality(calls[i].involved) = 2
        /\ \A m \in calls[i].involved : calls[i].targetPos[m] # calls[i].startPos[m]

\* showAll() has run to completion as the last call, and neither
\* initialize() nor the loader has run since it was called.
ShowAllSettled ==
    /\ calls # <<>>
    /\ LastCall.kind = "showAll"
    /\ LastCall.pc = "done"
    /\ LastCall.snap = snapVars

\* C15: round trip.  For every tracked mesh with recorded originals, after
\* settled showOnlyStepMeshes calls, resetPositions() leaves the position at
\* the recorded one, and showAll(), once it has run, leaves opacity and
\* transparent flag at the recorded ones.
C15_RestoreRoundTrip ==
    /\ visLast.ev = "reset" =>
         \A m \in Tracked \cap DOMAIN originalPositions :
            meshPosition[m] = originalPositions[m]
    /\ ShowAllSettled =>
         \A m \in Tracked \cap DOMAIN originalMaterialProps :
            /\ meshOpacity[m] = originalMaterialProps[m].opacity
            /\ meshTransparent[m] = originalMaterialProps[m].transparent

\* A step that faded the half transparent mesh and moved mesh 1 has settled,
\* then showAll() ran and resetPositions() was called.
C15_Witness ==
    /\ Len(calls) = 2
    /\ PrevCall.kind = "show"
    /\ 3 \in PrevCall.toFade
    /\ PrevCall.faded
    /\ 1 \in PrevCall.involved
    /\ PrevCall.resolvedPos[1] # InitialPosition[1]
    /\ PrevCall.snap = snapVars
    /\ 3 \in DOMAIN originalMaterialProps
    /\ ShowAllSettled
    /\ visLast.ev = "reset"

\* C16: showAll() is idempotent.  After a showAll() call made with nothing
\* else in flight has run, and again after a second one in a row (made after
\* or while the first one runs), every tracked mesh is visible and the
\* opacity of every mesh with recorded originals is the recorded one.
C16_ShowAllIdempotent ==
    (/\ calls # <<>>
     /\ Quiescent
     /\ LastCall.kind = "showAll"
     /\ LastCall.snap = snapVars
     /\ \/ ~LastCall.overlap
        \/ Len(calls) >= 2 /\ PrevCall.kind = "showAll" /\ ~PrevCall.overlap)
    => /\ \A m \in Tracked : meshVisible[m]
       /\ \A m \in Tracked \cap DOMAIN originalMaterialProps :
             meshOpacity[m] = originalMaterialProps[m].opacity

\* showAll() has run twice in a row, the second call made while the first
\* one was still fading in, on a scene whose half transparent mesh is tracked
\* and recorded.
C16_Witness ==
    /\ Len(calls) >= 2
    /\ PrevCall.kind = "showAll"
    /\ ~PrevCall.overlap
    /\ LastCall.kind = "showAll"
    /\ LastCall.overlap
    /\ Quiescent
    /\ 3 \in Tracked \cap DOMAIN originalMaterialProps
    /\ originalMaterialProps[3].opacity # OpacityOne

\* C17: capture is idempotent.  initialize() called again leaves every
\* recorded position and every recorded material value as it was.
C17_CaptureIdempotent ==
    [][visLast'.ev = "initialize" =>
        /\ \A m \in DOMAIN originalPositions : originalPositions'[m] = originalPositions[m]
        /\ \A m \in DOMAIN originalMaterialProps :
              originalMaterialProps'[m] = originalMaterialProps[m]]_vars

\* C18: restoring a tracked mesh that has no recorded originals is a no-op:
\* showAll(), once it has run, leaves the mesh's opacity as it was when
\* showAll() was called.
C18_RestoreWithoutSnapshotIsNoOp ==
    ShowAllSettled =>
        \A m \in LastCall.shown \ DOMAIN originalMaterialProps :
            meshOpacity[m] = LastCall.startOpacity[m]

\* C19: while blinking at frequency f, the flag has toggled once for every
\* 1/(2f) seconds of delta time passed to update(), whatever the delta times.
C19_TogglesPerHalfPeriod ==
    isBlinking =>
        /\ blinkToggles = blinkElapsed \div HalfPeriodMs(blinkFreq)
        /\ blinkVisible = (blinkToggles % 2 = 0)

\* C20: from setBlinking(false, f), called in any state, and through the
\* update() calls that follow, blinking is off, the flag is visible, the timer
\* is 0 and the pass holds the stored selection.
C20_DisableForcesVisible ==
    blinkDisabled # "no" =>
        /\ ~isBlinking
        /\ blinkVisible
        /\ blinkTimer = 0
        /\ outlineSelected = selectedObjects

\* Blinking was switched off while the outline of a selection was hidden,
\* and update() has run since.
C20_Witness ==
    /\ blinkDisabled = "fromHidden"
    /\ selectedObjects # <<>>
    /\ blinkUpdates >= 2

\* C21: from clear(), called in any state, and through the update() calls
\* that follow, the stored selection and the selection of the pass are empty,
\* blinking is off, the timer is 0 and the flag is visible.
C21_ClearStopsOutline ==
    blinkCleared.from # "no" =>
        /\ selectedObjects = <<>>
        /\ outlineSelected = <<>>
        /\ ~isBlinking
        /\ blinkTimer = 0
        /\ blinkVisible

\* clear() ran while the manager was blinking, and update() has run twice since.
C21_Witness ==
    /\ blinkCleared.from = "blinking"
    /\ blinkCleared.updates >= 2

\* C28: the selection of the pass agrees with the blink flag: the stored
\* selection when the flag is visible, empty when it is not.
C28_PassAgreesWithFlag ==
    outlineSelected = IF blinkVisible THEN selectedObjects ELSE <<>>

\* C25: resetAssembly() never throws, whatever configuration is or is not loaded.
C25_ResetNeverThrows ==
    asmLast.op = "reset" => ~asmLast.threw

\* C29: at most one executeCurrentStep chain is in progress at any time.
C29_SingleChain ==
    Len(waiting) <= 1

\* The orderings of a list.
Orderings(s) ==
    {[i \in DOMAIN s |-> s[p[i]]] :
        p \in {q \in [DOMAIN s -> DOMAIN s] : \A i, j \in DOMAIN s : q[i] = q[j] => i = j}}

\* C27: with every group configured once, the mesh set _buildAssembledGroups
\* resolves for a group is the same for every ordering of the assembledGroups
\* list, reference cycles included.
C27_OrderIndependent ==
    (/\ built
     /\ \A i, j \in DOMAIN meshGroupConfig.assembledGroups :
           meshGroupConfig.assembledGroups[i].name = meshGroupConfig.assembledGroups[j].name
               => i = j)
    => \A cfgs \in Orderings(meshGroupConfig.assembledGroups) :
          LET other == buildAssembledGroups(cfgs, cfgs, groups).map
          IN \A i \in DOMAIN cfgs :
                Range(MapGet(other, cfgs[i].name)) = Range(MapGet(assembledGroups, cfgs[i].name))

\* C23: when the recentering of a call has finished, the world-space
\* displacement between any two involved meshes is what it was when the
\* recentering began, on every scene graph.
C23_StagingKeepsOffsets ==
    \A i \in DOMAIN calls :
        (calls[i].kind = "show" /\ calls[i].pc = "done" /\ calls[i].involved # {}) =>
            \A m, n \in calls[i].involved :
                WorldPosition(m, calls[i].resolvedPos) - WorldPosition(n, calls[i].resolvedPos)
                    = WorldPosition(m, calls[i].startPos) - WorldPosition(n, calls[i].startPos)

\* The focal points a step may configure (the origin, and another point).
StagingCenters == {0, 10}

\* C24: when the recentering of a call has finished, the centre of the
\* bounding box of the involved meshes is the focal point the step configures,
\* whichever it is; showOnlyStepMeshes reads no focal point from the step, so
\* the state is the same for each.
C24_CentroidAtFocalPoint ==
    \A stagingCenter \in StagingCenters :
        \A i \in DOMAIN calls :
            (calls[i].kind = "show" /\ calls[i].pc = "done" /\ calls[i].involved # {}) =>
                BoxCenter(calls[i].involved, calls[i].resolvedPos) = stagingCenter

\* C22: of the clones one createAnimationClones call made, none made for
\* entry i+1 has become visible unless every clone made for entry i has been
\* animated, is at its target and is hidden again.
C22_OneEntryAfterAnother ==
    \A c, d \in DOMAIN clones :
        (/\ clones[c].gen = clones[d].gen
         /\ clones[c].entry = clones[d].entry + 1
         /\ clones[c].started)
        => /\ clones[d].started
           /\ ~clones[d].visible
           /\ clones[d].position = clones[d].target

\* C30: after clearClones() no clone made so far is attached to the scene
\* graph, and animationClones and animationOffsets are empty.
C30_ClearDetachesEveryClone ==
    animLast.op = "clear" =>
        /\ \A c \in DOMAIN clones : ~clones[c].attached
        /\ animationClones = <<>>
        /\ animationOffsets = <<>>

\* Every promise returned so far has resolved.
AllResolved ==
    /\ \A i \in DOMAIN calls : calls[i].pc = "done"
    /\ \A i \in DOMAIN anims : anims[i].pc = "done"

\* C26: every promise showOnlyStepMeshes, showAll and _animateCloneToTarget
\* return resolves in the end: time and again none is left unresolved.
C26_AnimationsComplete ==
    []<>AllResolved

\* A direct _animateCloneToTarget call with duration 0, on a clone that has
\* offset data, has resolved.
C26_Witness ==
    \E i \in DOMAIN anims : /\ anims[i].play = 0
                             /\ anims[i].duration = 0
                             /\ anims[i].originalMesh # 0
                             /\ anims[i].pc = "done"

\* C5: reset forces Idle: from a resetAssembly() call until the next
\* startAssembly() call, is_assembling is false and current_step is 0, so no
\* step of a sequence that was running at the reset is executed afterwards.
C5_ResetForcesIdle ==
    (sinceReset /\ assembly_config.loaded /\ assembly_config.hasParts)
        => (is_assembling = FALSE /\ current_step = 0)

NoDuplicateUuid(meshes) ==
    \A i, j \in DOMAIN meshes : i # j => uuid(meshes[i]) # uuid(meshes[j])

\* C6: the mesh list stored for every assembled group, by either loader,
\* holds each mesh uuid at most once.
C6_UniqueMeshes ==
    built =>
        /\ \A i \in DOMAIN assembledGroups : NoDuplicateUuid(assembledGroups[i].val)
        /\ \A i \in DOMAIN assembledGroupsB : NoDuplicateUuid(assembledGroupsB[i].val)

\* A built configuration in which an assembled group names the same existing
\* base group twice and ends with meshes.
C6_Witness ==
    /\ built
    /\ \E i \in DOMAIN meshGroupConfig.assembledGroups :
         LET c == meshGroupConfig.assembledGroups[i] IN
         /\ MapGet(ConfigByName(meshGroupConfig.assembledGroups), c.name) = c
         /\ \E j, k \in DOMAIN c.groups :
              /\ j # k
              /\ c.groups[j] = c.groups[k]
              /\ MapHas(groups, c.groups[j])
              /\ ~MapHas(ConfigByName(meshGroupConfig.assembledGroups), c.groups[j])
         /\ Len(MapGet(assembledGroups, c.name)) >= 2
         /\ Len(MapGet(assembledGroupsB, c.name)) >= 2

\* The assembled names a name refers to through "groups", in any number of steps.
RECURSIVE ReachableFrom(_, _)
ReachableFrom(S, byName) ==
    LET T == S \cup UNION {Range(MapGet(byName, n).groups) : n \in {m \in S : MapHas(byName, m)}}
    IN IF T = S THEN S ELSE ReachableFrom(T, byName)

\* The meshes a group can draw on at all: those of the base groups its
\* reachable configurations name.
ReachableMeshes(name, byName, base) ==
    LET names == ReachableFrom({name}, byName)
        leaves == {n \in names : ~MapHas(byName, n)}
                  \cup UNION {Range(MapGet(byName, n).baseNames) : n \in {m \in names : MapHas(byName, m)}}
    IN UNION {Range(MapGet(base, n)) : n \in {m \in leaves : MapHas(base, m)}}

\* The configuration has a reference cycle: a group that reaches itself.
HasCycle(cfgs) ==
    \E i \in DOMAIN cfgs :
        cfgs[i].name \in ReachableFrom(Range(MapGet(ConfigByName(cfgs), cfgs[i].name).groups),
                                       ConfigByName(cfgs))

\* C7: whatever the configuration, cycles included, _buildAssembledGroups
\* returns: no resolution nests deeper than the configuration allows, every
\* configured group gets a mesh list, and the list holds only meshes of base
\* groups the group reaches (a branch cut at a cycle adds nothing).
C7_ResolutionTerminates ==
    built =>
        /\ resolveOk
        /\ \A i \in DOMAIN meshGroupConfig.assembledGroups :
             LET name == meshGroupConfig.assembledGroups[i].name
                 byName == ConfigByName(meshGroupConfig.assembledGroups)
             IN /\ MapHas(assembledGroups, name)
                /\ MapHas(assembledGroupsB, name)
                /\ Range(MapGet(assembledGroups, name)) \subseteq ReachableMeshes(name, byName, groups)
                /\ Range(MapGet(assembledGroupsB, name)) \subseteq ReachableMeshes(name, byName, groups)

\* A built configuration with a reference cycle.
C7_Witness ==
    /\ built
    /\ resolveOk
    /\ HasCycle(meshGroupConfig.assembledGroups)

\* name is baseName, or baseName, one underscore and one or more digits.
IsVariantName(baseName, name) ==
    \/ name = baseName
    \/ /\ Len(name) >= Len(baseName) + 2
       /\ SubSeq(name, 1, Len(baseName)) = baseName
       /\ name[Len(baseName) + 1] = "_"
       /\ \A k \in (Len(baseName) + 2)..Len(name) : name[k] \in Digits

BaseGroupMembers(baseName) ==
    IF MapHas(groups, baseName) THEN Range(MapGet(groups, baseName)) ELSE {}

\* C8: the base group of every configured base name holds exactly the meshes
\* named baseName or baseName_<digits>; special characters match literally.
C8_ExactVariants ==
    built =>
        \A i \in DOMAIN meshGroupConfig.baseNames :
            LET b == meshGroupConfig.baseNames[i] IN
            BaseGroupMembers(b) =
                {m \in DOMAIN rootModel :
                    rootModel[m].isMesh /\ IsVariantName(b, rootModel[m].name)}

\* A built group for a base name with a special character, with a numbered
\* variant, in a scene that also holds a look-alike name.
C8_Witness ==
    /\ built
    /\ \E i \in DOMAIN groups :
         /\ \E k \in DOMAIN groups[i].key : groups[i].key[k] \in RegexSpecial
         /\ Len(groups[i].val) >= 2
         /\ \E m \in DOMAIN rootModel :
              /\ rootModel[m].isMesh
              /\ m \notin Range(groups[i].val)
              /\ rootModel[m].name[1] = groups[i].key[1]

\* C9: in every base group the mesh named exactly as the base name, when
\* there is one, comes first and the others follow by ascending numeric
\* suffix, whatever order the traversal met them in.
C9_UnsuffixedFirst ==
    built =>
        \A i \in DOMAIN groups :
            LET b == groups[i].key
                ms == groups[i].val
            IN /\ (\E k \in DOMAIN ms : rootModel[ms[k]].name = b) => rootModel[ms[1]].name = b
               /\ \A j, k \in DOMAIN ms :
                    (j < k /\ rootModel[ms[j]].name # b /\ rootModel[ms[k]].name # b)
                        => SuffixNum(rootModel[ms[j]].name) <= SuffixNum(rootModel[ms[k]].name)

\* C10: getAllMeshesForName looks in the assembled groups first and the base
\* groups second, and gives an empty list for a name that is neither.
C10_AssembledFirst ==
    (built /\ lookup.name # <<>>) =>
        /\ MapHas(assembledGroups, lookup.name) =>
             lookup.result = [isNull |-> FALSE, meshes |-> MapGet(assembledGroups, lookup.name)]
        /\ MapHas(assembledGroupsB, lookup.name) =>
             lookup.resultB = [isNull |-> FALSE, meshes |-> MapGet(assembledGroupsB, lookup.name)]
        /\ (~MapHas(assembledGroups, lookup.name) /\ ~MapHas(groups, lookup.name)) =>
             lookup.result = [isNull |-> FALSE, meshes |-> <<>>]

====
